---- MODULE Spec2Model ----
(***************************************************************************)
(* Report lifecycle and citizen scoring of the Clean Mboka backend         *)
(* (app/api/reports.py, app/api/tasks.py, app/services/scoring_service.py).*)
(*                                                                         *)
(* The persisted state is the `reports` and `users` tables.  Every HTTP    *)
(* handler is one action: the guards are the handler's early returns, the  *)
(* primed variables are what it commits.  A handler that raises before     *)
(* db.commit() leaves the tables untouched (the session is closed without  *)
(* commit, app/database.py get_db).  The monthly subscription job commits  *)
(* once per subscriber: each commit is a step, the others follow while the *)
(* job is in flight.                                                       *)
(*                                                                         *)
(* Conventions                                                             *)
(*   - timestamps are hours on the clock `now`;                            *)
(*   - weights are carried in tenths of a kilogram (155 is 15.5 kg);       *)
(*   - a NULL number is None (-1: ids, timestamps, weights and scores are  *)
(*     never negative in the program); a NULL string is NoneStr, the text  *)
(*     Python renders for None;                                            *)
(*   - the pictographs that open the labels of appended notes are written  *)
(*     with asterisks;                                                     *)
(*   - `response` is the last request and its answer, `ledger` counts the  *)
(*     credits of each component of the points of a report, `jumps` and    *)
(*     `progress` bound the runs that are explored;                        *)
(*   - `sessions` holds the database sessions of the requests in flight,   *)
(*     for the runs in which the steps of two requests interleave, and the *)
(*     monthly job between two of its commits.                             *)
(*                                                                         *)
(* Left out: the columns no handler reads back (last_action,               *)
(* last_action_at, weight_verified_at), the photo files and the            *)
(* notifications.  create_report raises before its commit (it gives the    *)
(* Report constructor a column the table does not have), so the reports of *)
(* a run are rows the table holds when the run starts.                     *)
(***************************************************************************)
EXTENDS Integers, Sequences, FiniteSets, TLC

VARIABLES reports, users, now, response, ledger, jumps, progress, sessions

vars == <<reports, users, now, response, ledger, jumps, progress, sessions>>

---------------------------------------------------------------------------
(* Bounds of the model *)

\* the clock advances at most this many times
MaxTicks == 3

\* a points-crediting request is only issued while the balance stays below this
MaxPoints == 135

\* notes are appended to a text only while it is at most this long
MaxTextLen == 20

\* status updates that are not an edge of the lifecycle, in one run
MaxJumps == 1

\* the largest number of points given to the reward functions
MaxRewardPoints == 8000

---------------------------------------------------------------------------
(* NULL values *)

None == -1

NoneStr == "None"

---------------------------------------------------------------------------
(* Program constants *)

\* timedelta(hours=48) of the confirmation deadline
CONFIRMATION_DEADLINE_HOURS == 48

\* delai.total_seconds() < 86400
FAST_CONFIRMATION_SECONDS == 86400

POINTS_ABONNEMENT_MENSUEL == 10

POINTS_PAR_KG == 2

POINTS_MAX_DESCRIPTION == 30

POINTS_CONFIRMATION_BONUS == 20

\* flat reward of the legacy confirmation and of the fallback of confirm-cleanup
LEGACY_POINTS == 100

\* Field(gt=0, le=1000) of ReportWeightUpdate.weight_kg, in tenths of a kilogram
WEIGHT_MAX == 10000

\* minimum length of a dispute reason once stripped
MIN_REASON_LENGTH == 10

\* one step of the clock, in hours
TickHours == FAST_CONFIRMATION_SECONDS \div 3600

ReportStatus ==
    {"PENDING", "ASSIGNED", "IN_PROGRESS", "AWAITING_CONFIRMATION",
     "COMPLETED", "DISPUTED"}

\* the lifecycle of a report: the status changes of the transition table
LifecycleEdges ==
    {<<"PENDING", "ASSIGNED">>, <<"PENDING", "IN_PROGRESS">>,
     <<"ASSIGNED", "IN_PROGRESS">>, <<"ASSIGNED", "AWAITING_CONFIRMATION">>,
     <<"IN_PROGRESS", "AWAITING_CONFIRMATION">>,
     <<"AWAITING_CONFIRMATION", "COMPLETED">>, <<"AWAITING_CONFIRMATION", "DISPUTED">>,
     <<"DISPUTED", "IN_PROGRESS">>, <<"DISPUTED", "COMPLETED">>,
     <<"IN_PROGRESS", "COMPLETED">>}

RoleEnum ==
    {"citoyen", "ramasseur", "superviseur", "coordinateur", "administrateur"}

---------------------------------------------------------------------------
(* Text helpers: Python's str.strip, str.split, str.lower and `in` *)

Char(s, i) == SubSeq(s, i, i)

\* c.isspace(), the blanks of str.strip, str.split and \s: space, tab, line
\* feed, carriage return, form feed, then vertical tab, the separators
\* 0x1C to 0x1F, next line (0x85) and the no-break space (0xA0); a string
\* holds the characters up to 0xFF
IsSpace(c) ==
    c \in {" ", "\t", "\n", "\r", "\f",
           "", "", "", "", "", "", " "}

IsDigit(c) == c \in {"0", "1", "2", "3", "4", "5", "6", "7", "8", "9"}

\* the upper-case letters up to 0xFF and, at the same place, what
\* str.lower makes of each
UpperLetters == "ABCDEFGHIJKLMNOPQRSTUVWXYZÀÁÂÃÄÅÆÇÈÉÊËÌÍÎÏÐÑÒÓÔÕÖØÙÚÛÜÝÞ"

LowerLetters == "abcdefghijklmnopqrstuvwxyzàáâãäåæçèéêëìíîïðñòóôõöøùúûüýþ"

IsUpper(c) == \E i \in 1..Len(UpperLetters) : Char(UpperLetters, i) = c

LowerChar(c) ==
    IF IsUpper(c)
    THEN Char(LowerLetters, CHOOSE i \in 1..Len(UpperLetters) : Char(UpperLetters, i) = c)
    ELSE c

RECURSIVE lower(_)
lower(s) ==
    IF Len(s) = 0 THEN ""
    ELSE IF Len(s) = 1 THEN LowerChar(s)
    ELSE LET half == Len(s) \div 2
         IN  lower(SubSeq(s, 1, half)) \o lower(SubSeq(s, half + 1, Len(s)))

\* s.strip()
strip(s) ==
    LET kept == {i \in 1..Len(s) : ~IsSpace(Char(s, i))}
    IN  IF kept = {} THEN ""
        ELSE SubSeq(s, CHOOSE i \in kept : \A j \in kept : i <= j,
                       CHOOSE i \in kept : \A j \in kept : i >= j)

\* len(s.split())
WordCount(s) ==
    Cardinality({i \in 1..Len(s) :
        /\ ~IsSpace(Char(s, i))
        /\ (i = 1 \/ IsSpace(Char(s, i - 1)))})

\* sub in s
Contains(s, sub) ==
    \E i \in 1..(Len(s) - Len(sub) + 1) : SubSeq(s, i, i + Len(sub) - 1) = sub

\* Python truthiness of an Optional[str]
Truthy(s) == s # NoneStr /\ Len(s) > 0

---------------------------------------------------------------------------
(* ScoringService *)

mots_cles ==
    << <<"plastique", 2>>, <<"bouteille", 2>>, <<"sachet", 2>>, <<"bouteilles", 2>>,
       <<"plastiques", 2>>, <<"organique", 2>>, <<"nourriture", 2>>, <<"restes", 2>>,
       <<"alimentaire", 2>>, <<"encombrant", 2>>, <<"meuble", 2>>,
       <<"électroménager", 2>>, <<"canapé", 2>>, <<"matelas", 2>>,
       <<"médical", 3>>, <<"dangereux", 3>>, <<"verre", 2>>, <<"vitre", 2>>,
       <<"brisé", 1>>, <<"carton", 1>>, <<"papier", 1>>, <<"métal", 2>>,
       <<"ferraille", 2>>, <<"sacs", 1>>, <<"tas", 1>>, <<"dépôt", 1>>,
       <<"sauvage", 2>> >>

\* the alternatives of the quantity pattern; a longer alternative matches
\* exactly when its shorter prefix in the list does
QuantityUnits == {"kg", "kilo", "tonne", "sac", "unité", "m"}

\* re.search(r'\d+\s*(kg|kilo|...|m|m²|m3)', desc_lower)
HasQuantity(s) ==
    \E i \in 1..Len(s) :
        /\ IsDigit(Char(s, i))
        /\ \E j \in (i + 1)..Len(s) :
              /\ \A k \in (i + 1)..(j - 1) : IsSpace(Char(s, k))
              /\ \E u \in QuantityUnits :
                    /\ j + Len(u) - 1 <= Len(s)
                    /\ SubSeq(s, j, j + Len(u) - 1) = u

RECURSIVE KeywordScore(_, _)
KeywordScore(desc_lower, i) ==
    IF i > Len(mots_cles) THEN 0
    ELSE (IF Contains(desc_lower, mots_cles[i][1]) THEN mots_cles[i][2] ELSE 0)
         + KeywordScore(desc_lower, i + 1)

Min2(a, b) == IF a <= b THEN a ELSE b

calculer_score_description(description) ==
    IF ~Truthy(description) \/ Len(strip(description)) < 10 THEN 0
    ELSE LET desc_lower == lower(description)
             mots == WordCount(description)
             longueur == IF mots >= 20 THEN 10
                         ELSE IF mots >= 10 THEN 5
                         ELSE IF mots >= 5 THEN 2 ELSE 0
             cles == KeywordScore(desc_lower, 1)
             quantite == IF HasQuantity(desc_lower) THEN 4 ELSE 0
             ponctuation == IF Contains(description, ",") /\ Contains(description, ".")
                            THEN 2 ELSE 0
             majuscule == IF IsUpper(Char(description, 1)) THEN 1 ELSE 0
             urgence == IF Contains(description, "?") \/ Contains(description, "!")
                        THEN 1 ELSE 0
         IN  Min2(longueur + cles + quantite + ponctuation + majuscule + urgence,
                  POINTS_MAX_DESCRIPTION)

\* int(weight_kg * POINTS_PAR_KG), the weight being in tenths of a kilogram
\* points for a weight rounded to the nearest point
points_poids_arrondis(weight_kg) == (weight_kg * POINTS_PAR_KG + 5) \div 10

PointsPoids(weight_kg) == (weight_kg * POINTS_PAR_KG) \div 10

\* the three terms of calculer_points_signalement; an absent term is omitted
\* from `details`
PointsDetails(db_report) ==
    LET score_desc == IF db_report.description_quality_score = None THEN 0
                      ELSE db_report.description_quality_score
        keys ==
            (IF score_desc > 0 THEN {"description"} ELSE {})
            \cup (IF db_report.weight_kg # None /\ db_report.weight_kg > 0
                  THEN {"poids"} ELSE {})
            \cup (IF /\ db_report.citizen_confirmed
                     /\ db_report.cleanup_photo_submitted_at # None
                     /\ db_report.citizen_confirmed_at # None
                     /\ (db_report.citizen_confirmed_at
                            - db_report.cleanup_photo_submitted_at) * 3600
                          < FAST_CONFIRMATION_SECONDS
                  THEN {"confirmation_rapide"} ELSE {})
    IN  [k \in keys |->
            CASE k = "description" -> score_desc
              [] k = "poids" -> PointsPoids(db_report.weight_kg)
              [] k = "confirmation_rapide" -> POINTS_CONFIRMATION_BONUS]

Term(details, k) == IF k \in DOMAIN details THEN details[k] ELSE 0

calculer_points_signalement(db_report) ==
    LET details == PointsDetails(db_report)
    IN  [details |-> details,
         total |-> Term(details, "description") + Term(details, "poids")
                   + Term(details, "confirmation_rapide")]

---------------------------------------------------------------------------
(* ScoringService: the thresholds of the lottery *)

SEUILS_TIRAGE ==
    (1000 :> "Kit scolaire") @@ (2000 :> "Sac de riz 25kg")
        @@ (3500 :> "Kit nettoyage + congélateur") @@ (5000 :> "Moto")
        @@ (7500 :> "Véhicule de collecte")

\* sorted(d.items()): the pairs of a dict in ascending order of the key
RECURSIVE sorted_items(_, _)
sorted_items(d, keys) ==
    IF keys = {} THEN << >>
    ELSE LET first == CHOOSE k \in keys : \A other \in keys : k <= other
         IN  << <<first, d[first]>> >> \o sorted_items(d, keys \ {first})

\* the loop of get_seuils_atteints from the i-th pair on
RECURSIVE seuils_atteints_from(_, _, _)
seuils_atteints_from(items, i, points) ==
    IF i > Len(items) THEN << >>
    ELSE (IF points >= items[i][1]
          THEN << [seuil |-> items[i][1], cadeau |-> items[i][2], eligible |-> TRUE] >>
          ELSE << >>)
         \o seuils_atteints_from(items, i + 1, points)

get_seuils_atteints(points) ==
    seuils_atteints_from(sorted_items(SEUILS_TIRAGE, DOMAIN SEUILS_TIRAGE), 1, points)

\* the None returned by get_prochain_seuil
NoSeuil == [seuil |-> None, cadeau |-> NoneStr, points_manquants |-> None]

\* the loop of get_prochain_seuil from the i-th pair on; None when it ends
RECURSIVE prochain_seuil_from(_, _, _)
prochain_seuil_from(items, i, points) ==
    IF i > Len(items) THEN NoSeuil
    ELSE IF points < items[i][1]
    THEN [seuil |-> items[i][1], cadeau |-> items[i][2],
          points_manquants |-> items[i][1] - points]
    ELSE prochain_seuil_from(items, i + 1, points)

\* a loop that stops at a threshold already reached
seuil_atteint_ou_prochain(points) ==
    LET reached == {k \in DOMAIN SEUILS_TIRAGE : points <= k}
    IN  IF reached = {} THEN NoSeuil
        ELSE LET seuil == CHOOSE k \in reached : \A other \in reached : k <= other
             IN  [seuil |-> seuil, cadeau |-> SEUILS_TIRAGE[seuil],
                  points_manquants |-> seuil - points]

get_prochain_seuil(points) ==
    prochain_seuil_from(sorted_items(SEUILS_TIRAGE, DOMAIN SEUILS_TIRAGE), 1, points)

\* (user.points or 0) >= min(SEUILS_TIRAGE.keys())
is_eligible_for_lottery(points) ==
    LET seuil_minimum == CHOOSE k \in DOMAIN SEUILS_TIRAGE :
                            \A other \in DOMAIN SEUILS_TIRAGE : k <= other
    IN  points >= seuil_minimum

---------------------------------------------------------------------------
(* The tables *)

\* a request without a valid bearer token: get_current_user raises 401, as
\* it does for the token of a user the table does not hold
Anonymous == 0

\* role and commune of the rows of the users table at the start: two
\* citizens, two collectors, a supervisor, a coordinator and an
\* administrator, in two communes
UserRows ==
    [id \in 1..7 |->
        CASE id = 1 -> [role |-> "citoyen", commune |-> "Gombe"]
          [] id = 2 -> [role |-> "citoyen", commune |-> "Limete"]
          [] id = 3 -> [role |-> "ramasseur", commune |-> "gombe"]
          [] id = 4 -> [role |-> "ramasseur", commune |-> "Limete"]
          [] id = 5 -> [role |-> "superviseur", commune |-> "Gombe"]
          [] id = 6 -> [role |-> "coordinateur", commune |-> "Limete"]
          [] id = 7 -> [role |-> "administrateur", commune |-> "Limete"]]

UserIds == DOMAIN UserRows

\* the phone numbers of these users, and one more
PhoneNumbers ==
    [id \in 1..8 |-> "+24381000000" \o SubSeq("12345678", id, id)]

Actors == UserIds \cup {Anonymous}

ReportIds == {1, 2}

\* the reporting citizen of each report (Report.user_id, never written after creation)
Owner == [id \in ReportIds |-> id]

\* the descriptions of the reports the table holds
Descriptions == {NoneStr, "Tas de sacs plastiques, 3 sacs devant la maison."}

\* a row of the reports table that no handler has touched: the defaults of
\* the columns and NULL elsewhere
NewReport(user_id, description, description_quality_score) ==
    [user_id |-> user_id,
     collector_id |-> None,
     description |-> description,
     description_quality_score |-> description_quality_score,
     weight_kg |-> None,
     weight_verified_by |-> None,
     status |-> "PENDING",
     cleanup_photo_url |-> NoneStr,
     cleanup_photo_submitted_at |-> None,
     citizen_confirmed |-> FALSE,
     citizen_confirmed_at |-> None,
     confirmation_code |-> NoneStr,
     dispute_reason |-> NoneStr,
     confirmation_deadline |-> None,
     auto_confirmed |-> FALSE,
     resolved_at |-> None]

\* the score stored with a description, only `if description`
ScoreAtCreation(description) ==
    IF Truthy(description) THEN calculer_score_description(description) ELSE None

\* the untouched rows the table holds for a citizen: a description or none,
\* its score stored or still NULL
StoredRows(user_id) ==
    UNION {{NewReport(user_id, d, score) : score \in {None, ScoreAtCreation(d)}} :
              d \in Descriptions}

\* the columns of a user the handlers read and write
\* subscription_end is the end_date of the active row of the subscriptions
\* table for the user, None when there is none
NewUser(id) ==
    [points |-> 0, subscription_active |-> FALSE, subscription_end |-> None,
     role |-> UserRows[id].role, commune |-> UserRows[id].commune,
     phone |-> PhoneNumbers[id]]

NoCredit == [description |-> 0, poids |-> 0, confirmation_rapide |-> 0, forfait |-> 0]

\* the last request and its answer: the endpoint, the user and the report of
\* the request, the HTTP status, whether the handler committed and, on
\* success, the points announced and the reports swept
Response(op, actor, report_id, status_code) ==
    [op |-> op, actor |-> actor, report_id |-> report_id, status_code |-> status_code,
     points_earned |-> 0, swept |-> {}, committed |-> status_code = 200]

\* no request is in flight
NoSessions == << >>

\* the reports table holding untouched rows for these ids
Store(ids) ==
    {f \in [ids -> UNION {StoredRows(Owner[id]) : id \in ids}] :
        \A id \in ids : f[id].user_id = Owner[id]}

Init ==
    /\ reports \in Store({1})
    /\ users = [id \in UserIds |-> NewUser(id)]
    /\ now = 0
    /\ response = Response("start", None, None, 200)
    /\ ledger = [id \in ReportIds |-> NoCredit]
    /\ jumps = 0
    /\ progress = TRUE
    /\ sessions = NoSessions

\* str.lower of the roles and of the communes the users table holds,
\* computed once
Lowered == [text \in RoleEnum \cup {"Gombe", "gombe", "Limete"} |-> lower(text)]

\* get_user_role: the lower-cased value of the role enum
get_user_role(user) == Lowered[users[user].role]

\* user.commune.lower()
CommuneLower == [id \in DOMAIN users |-> Lowered[users[id].commune]]

\* a request that raises after a commit that stamped every report
reject_after_commit(op, status_code) ==
    /\ response' = Response(op, None, None, status_code)
    /\ reports' = [id \in DOMAIN reports |-> [reports[id] EXCEPT !.resolved_at = now + 1]]
    /\ UNCHANGED <<users, now, ledger>>

\* the frame of a request that raises before committing; the answer names
\* neither the user nor the report
Reject(op, status_code) ==
    /\ response' = Response(op, None, None, status_code)
    /\ UNCHANGED <<reports, users, now, ledger>>

\* the row of a report, with some columns assigned
Commit(report_id, row) == reports' = [reports EXCEPT ![report_id] = row]

\* citoyen.points = (citoyen.points or 0) + n
AddPoints(user_id, n) == users' = [users EXCEPT ![user_id].points = @ + n]

\* one more credit of every term of `details` for this report
Credited(report_id, details) ==
    ledger' = [ledger EXCEPT ![report_id] =
                  [k \in DOMAIN @ |-> IF k \in DOMAIN details THEN @[k] + 1 ELSE @[k]]]

\* existing_desc, separator and the appended notes
AppendNotes(description, label, notes) ==
    LET existing_desc == IF Truthy(description) THEN description ELSE ""
        separator == IF Len(existing_desc) > 0 THEN "\n\n" ELSE ""
    IN  existing_desc \o separator \o label \o notes

\* the pictograph that opens the collector's notes is written *
CollectorNotesLabel == "* Notes du ramasseur: "

\* the three-code-point pictograph that opens the supervisor's notes is written ***
SupervisorNotesLabel == "*** Notes du superviseur: "

\* the notes of submit-cleanup-photo
Notes == {NoneStr, "Zone nettoyee, 3 sacs."}

\* the resolution and admin_notes of resolve-dispute
Resolutions ==
    {<<"accept", NoneStr>>, <<"accept", "Photo floue">>, <<"Reject", NoneStr>>,
     <<"annuler", NoneStr>>, <<"reject", "Photo floue">>}

\* the texts a description can hold: the descriptions of the created reports,
\* with up to two notes appended
NotedOnce(descriptions) ==
    descriptions
    \cup {AppendNotes(d, CollectorNotesLabel, n) :
            d \in descriptions, n \in Notes \ {NoneStr}}
    \cup {AppendNotes(d, SupervisorNotesLabel, r[2]) :
            d \in descriptions, r \in {x \in Resolutions : x[2] # NoneStr}}

StoredDescriptions == NotedOnce(NotedOnce(Descriptions))

\* the score of every such text, computed once
description_scores ==
    [d \in StoredDescriptions |-> calculer_score_description(d)]

\* ScoringService.calculer_score_description(db_report.description)
score_description(description) ==
    IF description \in DOMAIN description_scores
    THEN description_scores[description]
    ELSE calculer_score_description(description)

\* commune.lower() != commune.lower(), when both communes are set
OutsideCommune(actor, db_report) ==
    /\ Truthy(users[actor].commune)
    /\ Truthy(users[db_report.user_id].commune)
    /\ CommuneLower[actor] # CommuneLower[db_report.user_id]

---------------------------------------------------------------------------
(* POST /{report_id}/submit-cleanup-photo *)

CleanupPhotoUrl == "/static/cleanup.jpg"

\* a table without the unique constraint: no code is ever refused
code_never_taken(report_id, code) == FALSE

\* the unique constraint on reports.confirmation_code: the commit raises
\* IntegrityError when another row holds the code
CodeTaken(report_id, code) ==
    \E other \in DOMAIN reports \ {report_id} : reports[other].confirmation_code = code

\* the row once the photo is stored
Photographed(db_report, notes, confirmation_code) ==
    [db_report EXCEPT
        !.cleanup_photo_url = CleanupPhotoUrl,
        !.cleanup_photo_submitted_at = now,
        !.status = "AWAITING_CONFIRMATION",
        !.confirmation_code = confirmation_code,
        !.confirmation_deadline = now + CONFIRMATION_DEADLINE_HOURS,
        !.description =
            IF Truthy(notes)
            THEN AppendNotes(@, CollectorNotesLabel, notes)
            ELSE @]

submit_cleanup_photo(actor, report_id, notes, confirmation_code) ==
    LET op == "submit_cleanup_photo" IN
    IF actor \notin DOMAIN users THEN Reject(op, 401)
    ELSE IF report_id \notin DOMAIN reports THEN Reject(op, 404)
    ELSE LET db_report == reports[report_id]
             user_role == get_user_role(actor)
         IN  IF user_role \notin {"ramasseur", "collector"}
             THEN Reject(op, 403)
             ELSE IF db_report.collector_id # actor
             THEN Reject(op, 403)
             ELSE IF db_report.status \notin {"IN_PROGRESS", "ASSIGNED"}
             THEN Reject(op, 400)
             ELSE IF CodeTaken(report_id, confirmation_code)
             THEN Reject(op, 500)
             ELSE /\ Commit(report_id, Photographed(db_report, notes, confirmation_code))
                  /\ response' = Response(op, actor, report_id, 200)
                  /\ UNCHANGED <<users, now, ledger>>

---------------------------------------------------------------------------
(* POST /{report_id}/confirm-cleanup *)

\* the auto-confirmation written when the deadline has passed
\* an automatic confirmation recorded as the citizen's own
auto_confirmed_as_citizen(db_report) ==
    [db_report EXCEPT
        !.auto_confirmed = TRUE,
        !.citizen_confirmed = TRUE,
        !.status = "COMPLETED",
        !.resolved_at = now]

AutoConfirmed(db_report) ==
    [db_report EXCEPT
        !.auto_confirmed = TRUE,
        !.status = "COMPLETED",
        !.resolved_at = now]

\* the row once the citizen has confirmed; the owner's confirmation also
\* fills in a missing description score
Confirmed(db_report, with_score) ==
    [db_report EXCEPT
        !.citizen_confirmed = TRUE,
        !.citizen_confirmed_at = now,
        !.status = "COMPLETED",
        !.resolved_at = now,
        !.description_quality_score =
            IF with_score /\ @ = None /\ Truthy(db_report.description)
            THEN score_description(db_report.description)
            ELSE @]

Disputed(db_report, reason) ==
    [db_report EXCEPT
        !.citizen_confirmed = FALSE,
        !.dispute_reason = reason,
        !.status = "DISPUTED"]

\* the deadline of the confirmation never passes
deadline_never_passed(db_report) == FALSE

\* db_report.confirmation_deadline and datetime.utcnow() > db_report.confirmation_deadline
deadline_passed(db_report) ==
    /\ db_report.confirmation_deadline # None
    /\ now > db_report.confirmation_deadline

\* the reason is measured with its surrounding blanks
reason_unstripped_too_short(reason) ==
    ~Truthy(reason) \/ Len(reason) < MIN_REASON_LENGTH

\* not confirmation.reason or len(confirmation.reason.strip()) < 10
reason_too_short(reason) ==
    ~Truthy(reason) \/ Len(strip(reason)) < MIN_REASON_LENGTH

\* current_user is never None here: a request without a token is answered
\* 401 by the get_current_user dependency, so confirmation_code is not read
\* a handler for which whoever is logged in owns the report
everyone_is_owner(actor, db_report) == TRUE

\* is_owner = db_report.user_id == current_user.id
report_owner(actor, db_report) == db_report.user_id = actor

confirm_cleanup_by_citizen(actor, report_id, confirmed, reason, confirmation_code) ==
    LET op == "confirm_cleanup_by_citizen" IN
    IF actor \notin DOMAIN users THEN Reject(op, 401)
    ELSE IF report_id \notin DOMAIN reports THEN Reject(op, 404)
    ELSE LET db_report == reports[report_id]
             user_role == get_user_role(actor)
             is_owner == report_owner(actor, db_report)
         IN  IF user_role \notin {"citoyen", "citizen"} /\ ~is_owner
             THEN Reject(op, 403)
             ELSE IF ~is_owner /\ user_role \notin {"admin", "administrateur",
                                                    "coordinator", "coordinateur"}
             THEN Reject(op, 403)
             ELSE IF db_report.status # "AWAITING_CONFIRMATION"
             THEN Reject(op, 400)
             ELSE IF deadline_passed(db_report)
             THEN /\ Commit(report_id, AutoConfirmed(db_report))
                  /\ response' = [Response(op, actor, report_id, 400) EXCEPT !.committed = TRUE]
                  /\ UNCHANGED <<users, now, ledger>>
             ELSE IF confirmed
             THEN LET row == Confirmed(db_report, is_owner)
                      points_calcules == calculer_points_signalement(row)
                  IN  /\ Commit(report_id, row)
                      /\ IF is_owner
                         THEN IF points_calcules.total > 0
                              THEN /\ AddPoints(db_report.user_id, points_calcules.total)
                                   /\ Credited(report_id, points_calcules.details)
                                   /\ response' =
                                        [Response(op, actor, report_id, 200)
                                            EXCEPT !.points_earned = points_calcules.total]
                              ELSE /\ AddPoints(actor, LEGACY_POINTS)
                                   /\ Credited(report_id, [k \in {"forfait"} |-> LEGACY_POINTS])
                                   /\ response' =
                                        [Response(op, actor, report_id, 200)
                                            EXCEPT !.points_earned = LEGACY_POINTS]
                         ELSE /\ response' = Response(op, actor, report_id, 200)
                              /\ UNCHANGED <<users, ledger>>
                      /\ UNCHANGED now
             ELSE IF reason_too_short(reason)
             THEN Reject(op, 400)
             ELSE /\ Commit(report_id, Disputed(db_report, reason))
                  /\ response' = Response(op, actor, report_id, 200)
                  /\ UNCHANGED <<users, now, ledger>>

---------------------------------------------------------------------------
(* PUT /{report_id}/resolve-dispute *)

ResolutionSuffix(admin_notes) ==
    "\n\nRésolution superviseur: "
        \o (IF Truthy(admin_notes) THEN admin_notes ELSE "Rejeté sans commentaire")

DisputeAccepted(db_report) ==
    [db_report EXCEPT
        !.status = "COMPLETED",
        !.resolved_at = now,
        !.citizen_confirmed = TRUE]

\* a rejection that leaves the refused photo and its code in place
dispute_rejected_photo_kept(db_report, admin_notes) ==
    [db_report EXCEPT
        !.status = "IN_PROGRESS",
        !.dispute_reason = @ \o ResolutionSuffix(admin_notes)]

\* f"{db_report.dispute_reason}..." renders a NULL reason as the text None
DisputeRejected(db_report, admin_notes) ==
    [db_report EXCEPT
        !.status = "IN_PROGRESS",
        !.cleanup_photo_url = NoneStr,
        !.cleanup_photo_submitted_at = None,
        !.confirmation_code = NoneStr,
        !.confirmation_deadline = None,
        !.dispute_reason = @ \o ResolutionSuffix(admin_notes)]

resolve_dispute(actor, report_id, resolution, admin_notes) ==
    LET op == "resolve_dispute" IN
    IF actor \notin DOMAIN users THEN Reject(op, 401)
    ELSE LET user_role == get_user_role(actor) IN
    IF user_role \notin {"superviseur", "supervisor", "coordinateur", "coordinator",
                         "admin", "administrateur"}
    THEN Reject(op, 403)
    ELSE IF report_id \notin DOMAIN reports THEN Reject(op, 404)
    ELSE LET db_report == reports[report_id] IN
    IF db_report.status # "DISPUTED" THEN Reject(op, 400)
    ELSE IF user_role \in {"superviseur", "supervisor"} /\ OutsideCommune(actor, db_report)
    THEN Reject(op, 403)
    ELSE IF lower(resolution) \notin {"accept", "reject"}
    THEN Reject(op, 400)
    ELSE LET resolved == IF lower(resolution) = "accept"
                         THEN DisputeAccepted(db_report)
                         ELSE DisputeRejected(db_report, admin_notes)
         IN  /\ Commit(report_id,
                    [resolved EXCEPT
                        !.description =
                            IF Truthy(admin_notes)
                            THEN AppendNotes(@, SupervisorNotesLabel, admin_notes)
                            ELSE @])
             /\ response' = Response(op, actor, report_id, 200)
             /\ UNCHANGED <<users, now, ledger>>

---------------------------------------------------------------------------
(* POST /tasks/auto-confirm-expired and POST /cron/daily-auto-confirm *)

\* a query that also selects the reports whose deadline is now
due_reports ==
    {id \in DOMAIN reports :
        /\ reports[id].status = "AWAITING_CONFIRMATION"
        /\ reports[id].confirmation_deadline # None
        /\ reports[id].confirmation_deadline <= now
        /\ reports[id].citizen_confirmed = FALSE
        /\ reports[id].auto_confirmed = FALSE}

\* the query of the sweep; a NULL deadline compares to NULL and is not selected
expired_reports ==
    {id \in DOMAIN reports :
        /\ reports[id].status = "AWAITING_CONFIRMATION"
        /\ reports[id].confirmation_deadline # None
        /\ reports[id].confirmation_deadline < now
        /\ reports[id].citizen_confirmed = FALSE
        /\ reports[id].auto_confirmed = FALSE}

\* a loop body that only dates the resolution
DatedRow(report) == [report EXCEPT !.resolved_at = now]

\* the body of the loop of the sweep
SweptRow(report) ==
    [report EXCEPT
        !.auto_confirmed = TRUE,
        !.status = "COMPLETED",
        !.resolved_at = now]

Sweep(op, actor) ==
    IF actor \notin DOMAIN users THEN Reject(op, 401)
    ELSE IF get_user_role(actor) \notin {"admin", "administrateur"}
    THEN Reject(op, 403)
    ELSE /\ reports' = [id \in DOMAIN reports |->
                           IF id \in expired_reports THEN SweptRow(reports[id])
                           ELSE reports[id]]
         /\ response' = [Response(op, actor, None, 200) EXCEPT !.swept = expired_reports]
         /\ UNCHANGED <<users, now, ledger>>

auto_confirm_expired_reports(actor) == Sweep("auto_confirm_expired_reports", actor)

daily_auto_confirm(actor) == Sweep("daily_auto_confirm", actor)

---------------------------------------------------------------------------
(* PUT /{report_id}/weight *)

\* Field(gt=0, le=1000)
ValidWeight(weight_kg) == weight_kg > 0 /\ weight_kg <= WEIGHT_MAX

\* a recorded weight is overwritten
weight_never_set(db_report) == FALSE

\* db_report.weight_kg is not None
weight_already_set(db_report) == db_report.weight_kg # None

Weighed(db_report, actor, weight_kg) ==
    [db_report EXCEPT
        !.weight_kg = weight_kg,
        !.weight_verified_by = actor,
        !.description_quality_score =
            IF @ = None /\ Truthy(db_report.description)
            THEN score_description(db_report.description)
            ELSE IF @ = None THEN 0 ELSE @]

update_report_weight(actor, report_id, weight_kg) ==
    LET op == "update_report_weight" IN
    IF actor \notin DOMAIN users THEN Reject(op, 401)
    ELSE IF ~ValidWeight(weight_kg) THEN Reject(op, 422)
    ELSE IF report_id \notin DOMAIN reports THEN Reject(op, 404)
    ELSE LET db_report == reports[report_id]
             user_role == get_user_role(actor)
         IN  IF user_role \notin {"ramasseur", "collector", "superviseur", "supervisor",
                                  "admin", "administrateur", "coordinator", "coordinateur"}
             THEN Reject(op, 403)
             ELSE IF user_role \in {"ramasseur", "collector"}
                     /\ db_report.collector_id # actor
             THEN Reject(op, 403)
             ELSE IF weight_already_set(db_report)
             THEN Reject(op, 400)
             ELSE LET row == Weighed(db_report, actor, weight_kg)
                      points_calcules == calculer_points_signalement(row)
                  IN  /\ Commit(report_id, row)
                      /\ IF points_calcules.total > 0
                         THEN /\ AddPoints(db_report.user_id, points_calcules.total)
                              /\ Credited(report_id, points_calcules.details)
                         ELSE UNCHANGED <<users, ledger>>
                      /\ response' = [Response(op, actor, report_id, 200)
                                         EXCEPT !.points_earned = points_calcules.total]
                      /\ UNCHANGED now

---------------------------------------------------------------------------
(* PUT /{report_id} *)

\* `if status_update.collector_id`: neither None nor 0
StatusUpdated(db_report, actor, new_status, collector_id) ==
    [db_report EXCEPT
        !.collector_id =
            IF collector_id \notin {None, 0} THEN collector_id
            ELSE IF new_status = "IN_PROGRESS" THEN actor
            ELSE @,
        !.resolved_at = IF new_status = "COMPLETED" THEN now ELSE @,
        !.status = new_status]

update_report_status(actor, report_id, new_status, collector_id) ==
    LET op == "update_report_status" IN
    IF actor \notin DOMAIN users THEN Reject(op, 401)
    ELSE IF report_id \notin DOMAIN reports THEN Reject(op, 404)
    ELSE LET db_report == reports[report_id]
             user_role == get_user_role(actor)
         IN  IF user_role \notin {"collector", "ramasseur", "supervisor", "superviseur",
                                  "coordinator", "coordinateur", "admin", "administrateur"}
             THEN Reject(op, 403)
             ELSE IF user_role \notin {"admin", "administrateur",
                                       "coordinator", "coordinateur"}
                     /\ OutsideCommune(actor, db_report)
             THEN Reject(op, 403)
             ELSE IF new_status = "ASSIGNED" /\ collector_id \in {None, 0}
             THEN Reject(op, 400)
             ELSE /\ Commit(report_id,
                            StatusUpdated(db_report, actor, new_status, collector_id))
                  /\ response' = Response(op, actor, report_id, 200)
                  /\ UNCHANGED <<users, now, ledger>>

---------------------------------------------------------------------------
(* PUT /{report_id}/confirm-collection *)

\* a handler that also takes a report awaiting its confirmation
neither_in_progress_nor_awaiting(db_report) ==
    db_report.status \notin {"IN_PROGRESS", "AWAITING_CONFIRMATION"}

\* db_report.status != "IN_PROGRESS"
not_in_progress(db_report) == db_report.status # "IN_PROGRESS"

confirm_collection_by_citizen(actor, report_id) ==
    LET op == "confirm_collection_by_citizen" IN
    IF actor \notin DOMAIN users THEN Reject(op, 401)
    ELSE IF report_id \notin DOMAIN reports THEN Reject(op, 404)
    ELSE LET db_report == reports[report_id]
             user_role == get_user_role(actor)
         IN  IF user_role \notin {"citizen", "citoyen"}
             THEN Reject(op, 403)
             ELSE IF db_report.user_id # actor
             THEN Reject(op, 403)
             ELSE IF not_in_progress(db_report)
             THEN Reject(op, 400)
             ELSE /\ Commit(report_id,
                            [db_report EXCEPT !.status = "COMPLETED",
                                              !.resolved_at = now])
                  /\ AddPoints(actor, LEGACY_POINTS)
                  /\ Credited(report_id, [k \in {"forfait"} |-> LEGACY_POINTS])
                  /\ response' = [Response(op, actor, report_id, 200)
                                     EXCEPT !.points_earned = LEGACY_POINTS]
                  /\ UNCHANGED now

---------------------------------------------------------------------------
(* DELETE /{report_id}/citizen *)

\* a handler that deletes a report in any status
status_never_refused(db_report) == FALSE

\* db_report.status not in ["PENDING"]
not_pending(db_report) == db_report.status \notin {"PENDING"}

delete_report_by_citizen(actor, report_id) ==
    LET op == "delete_report_by_citizen" IN
    IF actor \notin DOMAIN users THEN Reject(op, 401)
    ELSE IF report_id \notin DOMAIN reports THEN Reject(op, 404)
    ELSE LET db_report == reports[report_id]
             user_role == get_user_role(actor)
         IN  IF user_role \notin {"citizen", "citoyen"}
             THEN Reject(op, 403)
             ELSE IF db_report.user_id # actor
             THEN Reject(op, 403)
             ELSE IF not_pending(db_report)
             THEN Reject(op, 400)
             ELSE /\ reports' = [id \in DOMAIN reports \ {report_id} |-> reports[id]]
                  /\ response' = Response(op, actor, report_id, 200)
                  /\ UNCHANGED <<users, now, ledger>>

---------------------------------------------------------------------------
(* POST /reports/ *)

\* models.Report(..., cloudinary_public_id=public_id) raises TypeError: the
\* request is answered 500 and no row is added
create_report(actor, description) ==
    LET op == "create_report" IN
    IF actor \notin DOMAIN users THEN Reject(op, 401)
    ELSE Reject(op, 500)

---------------------------------------------------------------------------
(* POST /auth/register *)

\* crud.create_user: the row is added with the role and the commune of the
\* request, under the next id; no token is asked for
register(phone, role, commune) ==
    LET op == "register"
        new_id == 1 + CHOOSE id \in DOMAIN users : \A other \in DOMAIN users : other <= id
    IN  IF \E id \in DOMAIN users : users[id].phone = phone
        THEN Reject(op, 400)
        ELSE /\ users' = [id \in DOMAIN users \cup {new_id} |->
                             IF id = new_id
                             THEN [points |-> 0, subscription_active |-> FALSE,
                                   subscription_end |-> None, role |-> role,
                                   commune |-> commune, phone |-> phone]
                             ELSE users[id]]
             /\ response' = Response(op, new_id, None, 200)
             /\ UNCHANGED <<reports, now, ledger>>

---------------------------------------------------------------------------
(* PUT /users/{user_id}/role and PUT /users/{user_id}/zone *)

hierarchy ==
    ("citoyen" :> 0) @@ ("ramasseur" :> 1) @@ ("superviseur" :> 2)
        @@ ("coordinateur" :> 3) @@ ("administrateur" :> 4)

can_manage_users(current_user, target_user) ==
    LET current == users[current_user]
        target == users[target_user]
    IN  IF current_user = target_user THEN TRUE
        ELSE IF hierarchy[current.role] <= hierarchy[target.role] THEN FALSE
        ELSE IF current.role = "superviseur"
        THEN current.commune = target.commune /\ target.role = "ramasseur"
        ELSE IF current.role = "coordinateur"
        THEN current.commune = target.commune /\ target.role # "administrateur"
        ELSE current.role = "administrateur"

update_user_role(actor, user_id, role) ==
    LET op == "update_user_role" IN
    IF actor \notin DOMAIN users THEN Reject(op, 401)
    ELSE IF user_id \notin DOMAIN users THEN Reject(op, 404)
    ELSE IF ~can_manage_users(actor, user_id) THEN Reject(op, 403)
    ELSE LET current_user == users[actor]
             target_user == users[user_id]
             current_level == hierarchy[current_user.role]
             target_current_level == hierarchy[target_user.role]
             new_level == hierarchy[role]
         IN  IF actor = user_id THEN Reject(op, 400)
             ELSE IF current_level <= target_current_level THEN Reject(op, 403)
             ELSE IF current_level <= new_level THEN Reject(op, 403)
             ELSE IF /\ current_user.role = "superviseur"
                     /\ \/ role \notin {"citoyen", "ramasseur"}
                        \/ current_user.commune # target_user.commune
             THEN Reject(op, 403)
             ELSE IF /\ current_user.role = "coordinateur"
                     /\ \/ role \in {"coordinateur", "administrateur"}
                        \/ current_user.commune # target_user.commune
             THEN Reject(op, 403)
             ELSE IF /\ current_user.role = "administrateur"
                     /\ role = "administrateur"
                     /\ actor # 1
             THEN Reject(op, 403)
             ELSE /\ users' = [users EXCEPT ![user_id].role = role]
                  /\ response' = Response(op, actor, None, 200)
                  /\ UNCHANGED <<reports, now, ledger>>

update_user_zone(actor, user_id, commune) ==
    LET op == "update_user_zone" IN
    IF actor \notin DOMAIN users THEN Reject(op, 401)
    ELSE IF user_id \notin DOMAIN users THEN Reject(op, 404)
    ELSE IF ~can_manage_users(actor, user_id) THEN Reject(op, 403)
    ELSE IF /\ users[actor].role \in {"superviseur", "coordinateur"}
            /\ commune # users[actor].commune
    THEN Reject(op, 403)
    ELSE /\ users' = [users EXCEPT
                         ![user_id].commune = IF Truthy(commune) THEN commune ELSE @]
         /\ response' = Response(op, actor, None, 200)
         /\ UNCHANGED <<reports, now, ledger>>

---------------------------------------------------------------------------
(* POST /users/{user_id}/points/add *)

\* a check that refuses only the request without points
points_are_zero(points) == points = 0

\* if points <= 0
points_not_positive(points) == points <= 0

add_manual_points(actor, user_id, points) ==
    LET op == "add_manual_points" IN
    IF actor \notin DOMAIN users THEN Reject(op, 401)
    ELSE IF get_user_role(actor) \notin {"admin", "administrateur",
                                         "coordinator", "coordinateur"}
    THEN Reject(op, 403)
    ELSE IF points_not_positive(points) THEN Reject(op, 400)
    ELSE IF user_id \notin DOMAIN users THEN Reject(op, 404)
    ELSE IF users[user_id].role # "citoyen" THEN Reject(op, 400)
    ELSE /\ AddPoints(user_id, points)
         /\ response' = [Response(op, actor, None, 200) EXCEPT !.points_earned = points]
         /\ UNCHANGED <<reports, now, ledger>>

---------------------------------------------------------------------------
(* POST /cron/monthly-subscription-points *)

\* a query that does not look at end_date
subscription_row_exists(user) == user.subscription_end # None

\* the subscriptions query: an active row whose end_date is later than now
subscription_valid(user) == user.subscription_end # None /\ user.subscription_end > now

\* the user row after ScoringService.attribuer_points_abonnement
attribuer_points_abonnement(user) ==
    IF ~user.subscription_active THEN user
    ELSE IF subscription_valid(user)
    THEN [user EXCEPT !.points = @ + POINTS_ABONNEMENT_MENSUEL]
    ELSE [user EXCEPT !.subscription_active = FALSE]

\* the citizens whose flag is set
subscribers ==
    {id \in DOMAIN users : users[id].subscription_active /\ users[id].role = "citoyen"}

\* One turn of `for user in users`, up to the db.commit() of
\* attribuer_points_abonnement: the row of the user is read (after a commit
\* the session has expired it), the points are added or the flag is cleared
\* and the row is committed.  When no user is left the request is answered;
\* until then the request stays in flight, with the users still to handle,
\* the points given so far and whether it has committed.
award_subscriber(actor, user, pending, total_points, committed) ==
    LET op == "monthly_subscription_points"
        flagged == users[user].subscription_active
        points == IF flagged /\ subscription_valid(users[user])
                  THEN POINTS_ABONNEMENT_MENSUEL ELSE 0
        left == pending \ {user}
    IN  /\ users' = [users EXCEPT ![user] = attribuer_points_abonnement(@)]
        /\ sessions' =
              IF left = {} THEN NoSessions
              ELSE << [pc |-> "monthly", actor |-> actor, pending |-> left,
                       total_points |-> total_points + points,
                       committed |-> committed \/ flagged] >>
        /\ response' =
              [Response(op, actor, None, IF left = {} THEN 200 ELSE None) EXCEPT
                  !.points_earned = total_points + points,
                  !.committed = committed \/ flagged]
        /\ UNCHANGED <<reports, now, ledger>>

\* the request up to its first commit, or to its answer when it has none
monthly_subscription_points(actor) ==
    LET op == "monthly_subscription_points" IN
    IF actor \notin DOMAIN users THEN Reject(op, 401) /\ UNCHANGED sessions
    ELSE IF get_user_role(actor) \notin {"admin", "administrateur"}
    THEN Reject(op, 403) /\ UNCHANGED sessions
    ELSE IF subscribers = {}
    THEN /\ response' = [Response(op, actor, None, 200) EXCEPT !.committed = FALSE]
         /\ UNCHANGED <<reports, users, now, ledger, sessions>>
    ELSE \E user \in subscribers :
            award_subscriber(actor, user, subscribers, 0, FALSE)

\* the request in flight, from one commit to the next
next_subscriber ==
    LET job == sessions[1] IN
    \E user \in job.pending :
        award_subscriber(job.actor, user, job.pending, job.total_points, job.committed)

---------------------------------------------------------------------------
(* Requests issued in the model *)

Codes == {"A1B2C3D4", "E5F60718"}

Reasons == {NoneStr, "sale!", " tres sale ", "Zone sale."}

\* the bodies of confirm-cleanup: a confirmation, and refusals with each reason
Confirmations == {<<TRUE, NoneStr>>} \cup ({FALSE} \X Reasons)

\* 15.5 kg, and the two values on the wrong side of the range
Weights == {0, 155, WEIGHT_MAX + 1}

\* the status and collector_id of a status update: every status without a
\* collector, and an assignment to the collector
StatusUpdates == (ReportStatus \X {None}) \cup {<<"ASSIGNED", 3>>}

\* the users whose requests are explored
Clients == {1, 2, 3, 4, 5, 7}

\* every client sends the plain request of an endpoint: a photo without notes,
\* a confirmation, an accepted dispute, a weight of zero, an assignment to
\* nobody. The other requests are sent by some clients only: the owner, the
\* collectors and the supervisor of the commune of the report
Plain(actor, request, plain, senders) == request # plain => actor \in senders

\* the users whose sweeps are explored: the administrator and a supervisor
Sweepers == {5, 7}

\* notes are appended to a description only while it is short
ShortDescription(report_id, notes) ==
    Truthy(notes) =>
        /\ report_id \in DOMAIN reports
        /\ Len(reports[report_id].description) <= MaxTextLen

\* a dispute is resolved only while its reason is short
ShortReason(report_id) ==
    report_id \in DOMAIN reports => Len(reports[report_id].dispute_reason) <= MaxTextLen

\* requests that may credit points are issued while the balances are low
LowBalance == \A id \in DOMAIN users : users[id].points + LEGACY_POINTS <= MaxPoints

\* the status changes the lifecycle gives to the status update: an
\* assignment and the start of the work
StatusUpdateEdges ==
    {<<"PENDING", "ASSIGNED">>, <<"PENDING", "IN_PROGRESS">>, <<"ASSIGNED", "IN_PROGRESS">>}

\* 1 when the step is a status update that is none of them
OffLifecycle ==
    IF /\ response'.op = "update_report_status"
       /\ response'.committed
       /\ <<reports[response'.report_id].status,
            reports'[response'.report_id].status>> \notin StatusUpdateEdges
    THEN 1 ELSE 0

\* whether the step wrote to a table or moved the clock
Progress == <<reports, users, now>>' # <<reports, users, now>>

\* the bookkeeping of a step: the budget of status updates off the lifecycle
Step(request) ==
    /\ request
    /\ jumps' = jumps + OffLifecycle
    /\ jumps' <= MaxJumps
    /\ progress' = Progress
    /\ UNCHANGED sessions

\* A run is followed up to its first step that changed nothing (a request that
\* raised before its commit, a sweep that found no report, an update that
\* rewrote the values of the row): every action starts with `progress`.

\* the clock advances while a report awaits its confirmation
Tick ==
    /\ \E id \in DOMAIN reports : reports[id].status = "AWAITING_CONFIRMATION"
    /\ now + TickHours <= MaxTicks * TickHours
    /\ now' = now + TickHours
    /\ response' = Response("tick", None, None, 200)
    /\ UNCHANGED <<reports, users, ledger>>

ClockTick ==
    /\ progress
    /\ Step(Tick)

\* the requests of `clients` on the reports `ids`, with bodies drawn from the
\* sets given
SubmitCleanupPhoto(clients, ids, all_notes, codes) ==
    /\ progress
    /\ \E actor \in clients, report_id \in ids, notes \in all_notes, code \in codes :
          /\ Plain(actor, notes, NoneStr, {3})
          /\ ShortDescription(report_id, notes)
          /\ Step(submit_cleanup_photo(actor, report_id, notes, code))

ConfirmCleanup(clients, ids, confirmations) ==
    /\ progress
    /\ LowBalance
    /\ \E actor \in clients, report_id \in ids, confirmation \in confirmations :
          /\ Plain(actor, confirmation, <<TRUE, NoneStr>>, {Owner[report_id]})
          /\ Step(confirm_cleanup_by_citizen(actor, report_id, confirmation[1],
                                             confirmation[2], NoneStr))

ResolveDispute(ids) ==
    /\ progress
    /\ \E actor \in Clients, report_id \in ids, resolution \in Resolutions :
          /\ Plain(actor, resolution, <<"accept", NoneStr>>, {5})
          /\ ShortDescription(report_id, resolution[2])
          /\ ShortReason(report_id)
          /\ Step(resolve_dispute(actor, report_id, resolution[1], resolution[2]))

UpdateWeight(ids) ==
    /\ progress
    /\ LowBalance
    /\ \E actor \in Clients, report_id \in ids, weight_kg \in Weights :
          /\ Plain(actor, weight_kg, 0, {1, 3, 4})
          /\ Step(update_report_weight(actor, report_id, weight_kg))

UpdateStatus(ids) ==
    /\ progress
    /\ \E actor \in Clients, report_id \in ids, update \in StatusUpdates :
          /\ Plain(actor, update, <<"ASSIGNED", None>>, {3})
          /\ Step(update_report_status(actor, report_id, update[1], update[2]))

ConfirmCollection(ids) ==
    /\ progress
    /\ LowBalance
    /\ \E actor \in Clients, report_id \in ids :
          Step(confirm_collection_by_citizen(actor, report_id))

DeleteReport(ids) ==
    /\ progress
    /\ \E actor \in Clients, report_id \in ids :
          Step(delete_report_by_citizen(actor, report_id))

AutoConfirmExpired(sweepers) ==
    /\ progress
    /\ \E actor \in sweepers : Step(auto_confirm_expired_reports(actor))

DailyAutoConfirm(sweepers) ==
    /\ progress
    /\ \E actor \in sweepers : Step(daily_auto_confirm(actor))

\* one report and one confirmation code
\* a citizen and a visitor without a token report a deposit
CreateReport ==
    /\ progress
    /\ \E actor \in {Anonymous, 1}, description \in Descriptions :
          Step(create_report(actor, description))

Next ==
    \/ ClockTick
    \/ SubmitCleanupPhoto(Clients, {1}, Notes, {"A1B2C3D4"})
    \/ ConfirmCleanup(Clients, {1}, Confirmations)
    \/ ResolveDispute({1})
    \/ UpdateWeight({1})
    \/ UpdateStatus({1})
    \/ ConfirmCollection({1})
    \/ DeleteReport({1})
    \/ AutoConfirmExpired(Sweepers)
    \/ DailyAutoConfirm(Sweepers)
    \/ CreateReport

Spec == Init /\ [][Next]_vars

---------------------------------------------------------------------------
(* Two reports, in two communes, and the sweeps *)

\* the first report is described and scored, the second one is not
InitSweep ==
    /\ reports \in {f \in Store(ReportIds) :
                        /\ f[1].description_quality_score # None
                        /\ f[2].description = NoneStr}
    /\ users = [id \in UserIds |-> NewUser(id)]
    /\ now = 0
    /\ response = Response("start", None, None, 200)
    /\ ledger = [id \in ReportIds |-> NoCredit]
    /\ jumps = 0
    /\ progress = TRUE
    /\ sessions = NoSessions

\* the collectors start the work on a report, or declare it awaiting its
\* confirmation
TakeReport ==
    /\ progress
    /\ \E actor \in {3, 4}, report_id \in ReportIds,
          new_status \in {"IN_PROGRESS", "AWAITING_CONFIRMATION"} :
          Step(update_report_status(actor, report_id, new_status, None))

NextSweep ==
    \/ ClockTick
    \/ TakeReport
    \/ SubmitCleanupPhoto({3, 4}, ReportIds, {NoneStr}, Codes)
    \/ ConfirmCleanup({1, 2}, ReportIds, {<<TRUE, NoneStr>>, <<FALSE, "Zone sale.">>})
    \/ AutoConfirmExpired({7})
    \/ DailyAutoConfirm({7})

SpecSweep == InitSweep /\ [][NextSweep]_vars

---------------------------------------------------------------------------
(* Two reports, in two communes, and the agents of both communes; the      *)
(* clock stands still                                                      *)

\* the collectors take a report, the supervisor and the administrator
\* assign it to collector 3
AgentsUpdateStatus ==
    /\ progress
    /\ \E request \in {<<3, "IN_PROGRESS", None>>, <<4, "IN_PROGRESS", None>>,
                        <<5, "ASSIGNED", 3>>, <<7, "ASSIGNED", 3>>},
          report_id \in ReportIds :
          Step(update_report_status(request[1], report_id, request[2], request[3]))

\* a collector, the supervisor and the administrator record a weight
AgentsUpdateWeight ==
    /\ progress
    /\ LowBalance
    /\ \E actor \in {3, 5, 7}, report_id \in ReportIds :
          Step(update_report_weight(actor, report_id, 155))

\* the first collector, the supervisor and the coordinator resolve a dispute
AgentsResolveDispute ==
    /\ progress
    /\ \E actor \in {3, 5, 6}, report_id \in ReportIds, resolution \in {"accept", "reject"} :
          Step(resolve_dispute(actor, report_id, resolution, NoneStr))

\* a request without a token, presenting the code of the report or none
ConfirmByCode ==
    /\ progress
    /\ \E report_id \in ReportIds :
       \E code \in {NoneStr, reports[report_id].confirmation_code} :
          Step(confirm_cleanup_by_citizen(Anonymous, report_id, TRUE, NoneStr, code))

\* a visitor registers as an administrator, under a number that is taken
\* and under a new one, or as a citizen
Register ==
    /\ progress
    /\ \E request \in {<<PhoneNumbers[1], "administrateur", "Limete">>,
                        <<PhoneNumbers[8], "administrateur", "Limete">>,
                        <<PhoneNumbers[8], "citoyen", "Gombe">>} :
          Step(register(request[1], request[2], request[3]))

\* the administrator, and the one who registered, make the first collector a
\* supervisor, or a collector again; the supervisor tries the same and the
\* collector tries it on himself
UpdateUserRole ==
    /\ progress
    /\ \E request \in {<<7, 3, "superviseur">>, <<7, 3, "ramasseur">>,
                        <<8, 3, "superviseur">>,
                        <<5, 3, "superviseur">>, <<3, 3, "citoyen">>} :
          Step(update_user_role(request[1], request[2], request[3]))

\* the administrator moves the supervisor to the other commune, or back; the
\* supervisor tries to move the first collector there
UpdateUserZone ==
    /\ progress
    /\ \E request \in {<<7, 5, "Limete">>, <<7, 5, "Gombe">>, <<5, 3, "Limete">>} :
          Step(update_user_zone(request[1], request[2], request[3]))

\* one confirmation code is drawn again and again
NextAgents ==
    \/ AgentsUpdateStatus
    \/ AgentsUpdateWeight
    \/ AgentsResolveDispute
    \/ SubmitCleanupPhoto({3, 4}, ReportIds, {NoneStr}, {"A1B2C3D4"})
    \/ ConfirmCleanup({1, 2, 3, 5, 7}, ReportIds, {<<TRUE, NoneStr>>, <<FALSE, "Zone sale.">>})
    \/ ConfirmByCode

SpecAgents == InitSweep /\ [][NextAgents]_vars

\* one report and the agents at work while users register and the
\* administrators change roles and communes
NextStaff ==
    \/ Register
    \/ UpdateUserRole
    \/ UpdateUserZone
    \/ AgentsUpdateStatus
    \/ AgentsUpdateWeight
    \/ AgentsResolveDispute
    \/ SubmitCleanupPhoto({3, 4}, ReportIds, {NoneStr}, {"A1B2C3D4"})
    \/ ConfirmCleanup({1, 2}, ReportIds, {<<TRUE, NoneStr>>, <<FALSE, "Zone sale.">>})

SpecStaff == Init /\ [][NextStaff]_vars

---------------------------------------------------------------------------
(* One report, the subscriptions and the points added by hand *)

\* the first citizen holds a subscription that ends after two days, the
\* second one has the flag of a subscription whose row is gone
Subscribed(id) ==
    CASE id = 1 -> [NewUser(id) EXCEPT !.subscription_active = TRUE,
                                       !.subscription_end = 2 * TickHours]
      [] id = 2 -> [NewUser(id) EXCEPT !.subscription_active = TRUE]
      [] OTHER -> NewUser(id)

InitPoints ==
    /\ reports \in {f \in Store({1}) : f[1].description_quality_score # None}
    /\ users = [id \in UserIds |-> Subscribed(id)]
    /\ now = 0
    /\ response = Response("start", None, None, 200)
    /\ ledger = [id \in ReportIds |-> NoCredit]
    /\ jumps = 0
    /\ progress = TRUE
    /\ sessions = NoSessions

\* the administrator and the supervisor add points to a citizen, to a
\* collector and to nobody
AddManualPoints ==
    /\ progress
    /\ LowBalance
    /\ \E actor \in {5, 7}, user_id \in {1, 3, 8}, points \in {-5, 0, 50} :
          Step(add_manual_points(actor, user_id, points))

\* the bookkeeping of a step of the monthly job: a run goes on while the
\* request is in flight
JobStep(request) ==
    /\ request
    /\ jumps' = jumps
    /\ progress' = (Progress \/ sessions' # NoSessions)

MonthlySubscriptionPoints ==
    /\ progress
    /\ LowBalance
    /\ sessions = NoSessions
    /\ \E actor \in {5, 7} : JobStep(monthly_subscription_points(actor))

\* the monthly job goes on to its next subscriber
NextSubscriber ==
    /\ progress
    /\ sessions # NoSessions
    /\ JobStep(next_subscriber)

NextPoints ==
    \/ ClockTick
    \/ AddManualPoints
    \/ MonthlySubscriptionPoints
    \/ NextSubscriber
    \/ AgentsUpdateStatus
    \/ AgentsUpdateWeight
    \/ AgentsResolveDispute
    \/ SubmitCleanupPhoto({3}, {1}, {NoneStr}, {"A1B2C3D4"})
    \/ ConfirmCleanup({1}, {1}, {<<TRUE, NoneStr>>, <<FALSE, "Zone sale.">>})
    \/ ConfirmCollection({1})
    \/ AutoConfirmExpired({7})

SpecPoints == InitPoints /\ [][NextPoints]_vars

---------------------------------------------------------------------------
(* One report of every description score, and the weights *)

\* the scores the description of a report can have
DescriptionScores == 0 .. POINTS_MAX_DESCRIPTION

\* a created report, a report of every stored score (the text is read only
\* when no score is stored), and a described report without a stored score
ScoredRows(user_id) ==
    StoredRows(user_id)
        \cup {NewReport(user_id, d, score) :
                 d \in Descriptions \ {NoneStr}, score \in DescriptionScores \cup {None}}

\* 0.4 kg, 0.5 kg, 15.5 kg and 1000 kg, in tenths of a kg
RecordedWeights == {4, 5, 155, WEIGHT_MAX}

InitWeigh ==
    /\ reports \in [{1} -> ScoredRows(1)]
    /\ users = [id \in UserIds |-> NewUser(id)]
    /\ now = 0
    /\ response = Response("start", None, None, 200)
    /\ ledger = [id \in ReportIds |-> NoCredit]
    /\ jumps = 0
    /\ progress = TRUE
    /\ sessions = NoSessions

\* the assigned collector, the supervisor and the administrator record a weight
RecordWeight ==
    /\ progress
    /\ \E actor \in {3, 5, 7}, weight_kg \in RecordedWeights :
          Step(update_report_weight(actor, 1, weight_kg))

NextWeigh ==
    \/ TakeReport
    \/ RecordWeight
    \/ SubmitCleanupPhoto({3}, {1}, {NoneStr}, {"A1B2C3D4"})
    \/ ConfirmCleanup({1}, {1}, {<<TRUE, NoneStr>>, <<FALSE, "Zone sale.">>})

SpecWeigh == InitWeigh /\ [][NextWeigh]_vars

---------------------------------------------------------------------------
(* The reward functions on the points of a citizen *)

\* the first citizen holds any number of points
InitRewards ==
    /\ reports = << >>
    /\ users \in {[[id \in UserIds |-> NewUser(id)] EXCEPT ![1].points = points] :
                    points \in 0 .. MaxRewardPoints}
    /\ now = 0
    /\ response = Response("start", None, None, 200)
    /\ ledger = [id \in ReportIds |-> NoCredit]
    /\ jumps = 0
    /\ progress = TRUE
    /\ sessions = NoSessions

\* the answer of a function of the points of the first citizen
Computed(op, result) ==
    /\ response' = [op |-> op, points |-> users[1].points, result |-> result]
    /\ UNCHANGED <<reports, users, now, ledger, jumps, progress, sessions>>

SeuilsAtteints ==
    /\ response.op = "start"
    /\ Computed("get_seuils_atteints", get_seuils_atteints(users[1].points))

ProchainSeuil ==
    /\ response.op = "start"
    /\ Computed("get_prochain_seuil", get_prochain_seuil(users[1].points))

EligibleForLottery ==
    /\ response.op = "start"
    /\ Computed("is_eligible_for_lottery", is_eligible_for_lottery(users[1].points))

NextRewards ==
    \/ SeuilsAtteints
    \/ ProchainSeuil
    \/ EligibleForLottery

SpecRewards == InitRewards /\ [][NextRewards]_vars

---------------------------------------------------------------------------
(* One report confirmed again and again, whatever the balance of its owner *)

\* the owner confirms the collection
OwnerConfirmsCollection ==
    /\ progress
    /\ \E report_id \in {1} :
          Step(confirm_collection_by_citizen(Owner[report_id], report_id))

\* the owner confirms the cleanup, or refuses it
OwnerConfirmsCleanup ==
    /\ progress
    /\ \E report_id \in {1},
          confirmation \in {<<TRUE, NoneStr>>, <<FALSE, "Zone sale.">>} :
          Step(confirm_cleanup_by_citizen(Owner[report_id], report_id, confirmation[1],
                                          confirmation[2], NoneStr))

NextForfait ==
    \/ ClockTick
    \/ TakeReport
    \/ SubmitCleanupPhoto({3}, {1}, {NoneStr}, {"A1B2C3D4"})
    \/ AgentsResolveDispute
    \/ OwnerConfirmsCollection
    \/ OwnerConfirmsCleanup

SpecForfait == Init /\ [][NextForfait]_vars

---------------------------------------------------------------------------
(* The clock and the sweep under fairness *)

\* the last hour of the clock: later hours are not told apart, no deadline
\* being later
LastHour == MaxTicks * TickHours

\* the requests followed are those the server accepted, a refused request
\* changing nothing; the budget of status updates off the lifecycle is kept
Accepted ==
    /\ response'.committed
    /\ jumps' = jumps + OffLifecycle
    /\ jumps' <= MaxJumps
    /\ UNCHANGED <<progress, sessions>>

\* a day passes
LiveTick ==
    /\ now' = Min2(now + TickHours, LastHour)
    /\ response' = Response("tick", None, None, 200)
    /\ UNCHANGED <<reports, users, ledger, jumps, progress, sessions>>

\* the scheduled sweep, run by the administrator
LiveSweep ==
    /\ daily_auto_confirm(7)
    /\ Accepted

\* the collector starts the work on the report, or declares it awaiting its
\* confirmation
LiveTakeReport ==
    /\ \E new_status \in {"IN_PROGRESS", "AWAITING_CONFIRMATION"} :
          update_report_status(3, 1, new_status, None)
    /\ Accepted

\* a photo whose deadline is earlier than the last hour
LivePhoto ==
    /\ now + CONFIRMATION_DEADLINE_HOURS < LastHour
    /\ submit_cleanup_photo(3, 1, NoneStr, "A1B2C3D4")
    /\ Accepted

\* the owner confirms, or refuses
LiveConfirm ==
    /\ LowBalance
    /\ \E confirmation \in {<<TRUE, NoneStr>>, <<FALSE, "Zone sale.">>} :
          confirm_cleanup_by_citizen(1, 1, confirmation[1], confirmation[2], NoneStr)
    /\ Accepted

\* the supervisor resolves a dispute
LiveResolve ==
    /\ ShortReason(1)
    /\ \E resolution \in {"accept", "reject"} : resolve_dispute(5, 1, resolution, NoneStr)
    /\ Accepted

NextLive ==
    \/ LiveTick
    \/ LiveSweep
    \/ LiveTakeReport
    \/ LivePhoto
    \/ LiveConfirm
    \/ LiveResolve

\* the clock advances and the cron job runs the sweep again and again
SpecLive == Init /\ [][NextLive]_vars /\ WF_vars(LiveTick) /\ WF_vars(LiveSweep)

---------------------------------------------------------------------------
(* Two requests in flight.  Each request has its own session (get_db): it  *)
(* reads rows into the session, works on them and writes the columns it    *)
(* changed at db.commit().  The steps of the two requests interleave.      *)

Workers == {1, 2}

\* the requests in flight: a weight recorded by the collector of the report
\* and a confirmation by its owner
RaceRequests ==
    {[op |-> "update_report_weight", actor |-> 3, report_id |-> id, weight_kg |-> w] :
        id \in ReportIds, w \in {40, 155}}
    \cup {[op |-> "confirm_cleanup_by_citizen", actor |-> 1, report_id |-> id,
            weight_kg |-> None] : id \in ReportIds}

\* SessionLocal(): a session that has read nothing
NewSession(request) ==
    [pc |-> "start", request |-> request, current_user |-> NewUser(request.actor),
     db_report |-> NewReport(None, NoneStr, None), citoyen |-> NewUser(request.actor),
     status_code |-> None, points_earned |-> 0]

\* both reports belong to citizen 1; collector 3 took them and submitted the
\* photos at hour 0
RaceRows(id) ==
    {[Photographed(StatusUpdated(NewReport(1, d, ScoreAtCreation(d)), 3, "IN_PROGRESS", None),
                   NoneStr, IF id = 1 THEN "A1B2C3D4" ELSE "E5F60718")
        EXCEPT !.cleanup_photo_submitted_at = 0,
               !.confirmation_deadline = CONFIRMATION_DEADLINE_HOURS] :
        d \in Descriptions}

\* the requests arrive in the hour of the photos, or two hours after the
\* deadline of the reports
InitRace ==
    /\ now \in {0, CONFIRMATION_DEADLINE_HOURS + 2}
    /\ reports \in {f \in [ReportIds -> UNION {RaceRows(id) : id \in ReportIds}] :
                        \A id \in ReportIds : f[id] \in RaceRows(id)}
    /\ users = [id \in UserIds |-> NewUser(id)]
    /\ response = Response("start", None, None, 200)
    /\ ledger = [id \in ReportIds |-> NoCredit]
    /\ jumps = 0
    /\ progress = TRUE
    /\ sessions \in [Workers -> {NewSession(r) : r \in RaceRequests}]

\* get_current_user: the row of the user of the token
Authenticate(w) ==
    /\ sessions[w].pc = "start"
    /\ sessions' = [sessions EXCEPT ![w].pc = "authenticated",
                                    ![w].current_user = users[sessions[w].request.actor]]
    /\ UNCHANGED <<reports, users, now, response, ledger, jumps, progress>>

\* db.query(models.Report).filter(models.Report.id == report_id).first()
QueryReport(w) ==
    /\ sessions[w].pc = "authenticated"
    /\ sessions' = [sessions EXCEPT ![w].pc = "queried",
                                    ![w].db_report = reports[sessions[w].request.report_id]]
    /\ UNCHANGED <<reports, users, now, response, ledger, jumps, progress>>

\* the owner read from the table whatever the session holds
owner_read_again(session) == users[session.db_report.user_id]

\* db_report.user: the row the session already holds when the owner is the
\* user of the token, a read of the users table otherwise
report_user(session) ==
    IF session.db_report.user_id = session.request.actor
    THEN session.current_user
    ELSE users[session.db_report.user_id]

\* the handler reaches db_report.user
LoadOwner(w) ==
    /\ sessions[w].pc = "queried"
    /\ sessions' = [sessions EXCEPT
                       ![w].pc = "loaded",
                       ![w].citoyen = report_user(sessions[w])]
    /\ UNCHANGED <<reports, users, now, response, ledger, jumps, progress>>

\* the answer of update_report_weight on the row the session read
WeightStatus(actor, db_report) ==
    LET user_role == get_user_role(actor) IN
    IF user_role \notin {"ramasseur", "collector", "superviseur", "supervisor",
                         "admin", "administrateur", "coordinator", "coordinateur"}
    THEN 403
    ELSE IF user_role \in {"ramasseur", "collector"} /\ db_report.collector_id # actor
    THEN 403
    ELSE IF weight_already_set(db_report) THEN 400
    ELSE 200

\* the answer of confirm_cleanup_by_citizen to a confirmation, on the row
\* the session read
ConfirmStatus(actor, db_report) ==
    LET user_role == get_user_role(actor)
        is_owner == db_report.user_id = actor
    IN  IF user_role \notin {"citoyen", "citizen"} /\ ~is_owner THEN 403
        ELSE IF ~is_owner /\ user_role \notin {"admin", "administrateur",
                                               "coordinator", "coordinateur"}
        THEN 403
        ELSE IF db_report.status # "AWAITING_CONFIRMATION" THEN 400
        ELSE IF deadline_passed(db_report) THEN 400
        ELSE 200

\* the UPDATE of a flush: the columns the session changed are written, the
\* others keep what the table holds
Flushed(loaded, row, stored) ==
    [c \in DOMAIN stored |-> IF row[c] # loaded[c] THEN row[c] ELSE stored[c]]

\* the rest of the handler, on the rows of the session, and db.commit()
Finish(w) ==
    LET session == sessions[w]
        request == session.request
        db_report == session.db_report
        weighing == request.op = "update_report_weight"
        status_code == IF weighing THEN WeightStatus(request.actor, db_report)
                       ELSE ConfirmStatus(request.actor, db_report)
        row == IF status_code = 200
               THEN IF weighing THEN Weighed(db_report, request.actor, request.weight_kg)
                    ELSE Confirmed(db_report, TRUE)
               ELSE IF ~weighing /\ db_report.status = "AWAITING_CONFIRMATION"
                       /\ deadline_passed(db_report)
               THEN AutoConfirmed(db_report)
               ELSE db_report
        points_calcules == calculer_points_signalement(row)
        forfait == ~weighing /\ points_calcules.total = 0
        points_earned == IF status_code # 200 THEN 0
                         ELSE IF forfait THEN LEGACY_POINTS
                         ELSE points_calcules.total
    IN  /\ session.pc = "loaded"
        /\ sessions' = [sessions EXCEPT ![w].pc = "done",
                                        ![w].status_code = status_code,
                                        ![w].points_earned = points_earned]
        /\ reports' = [reports EXCEPT
                          ![request.report_id] = Flushed(db_report, row, @)]
        /\ users' =
              IF points_earned = 0 THEN users
              ELSE IF forfait
              THEN [users EXCEPT ![request.actor].points =
                                    session.current_user.points + LEGACY_POINTS]
              ELSE [users EXCEPT ![db_report.user_id].points =
                                    session.citoyen.points + points_calcules.total]
        /\ ledger' =
              IF points_earned = 0 THEN ledger
              ELSE [ledger EXCEPT ![request.report_id] =
                      [k \in DOMAIN @ |->
                          IF \/ forfait /\ k = "forfait"
                             \/ ~forfait /\ k \in DOMAIN points_calcules.details
                          THEN @[k] + 1 ELSE @[k]]]
        /\ response' = [Response(request.op, request.actor, request.report_id, status_code)
                           EXCEPT !.points_earned = points_earned,
                                  !.committed = row # db_report]
        /\ UNCHANGED <<now, jumps, progress>>

NextRace ==
    \/ \E w \in Workers : Authenticate(w)
    \/ \E w \in Workers : QueryReport(w)
    \/ \E w \in Workers : LoadOwner(w)
    \/ \E w \in Workers : Finish(w)

SpecRace == InitRace /\ [][NextRace]_vars

---------------------------------------------------------------------------
(* Properties of the report lifecycle and of the scoring *)

\* the reports a step neither creates nor deletes
Kept == DOMAIN reports \cap DOMAIN reports'

\* the user whose confirmation of a report is accepted: its owner
MayConfirm(actor, id) == actor = reports[id].user_id

\* the report awaits its confirmation and the deadline is earlier than now
Late(id) ==
    /\ reports[id].status = "AWAITING_CONFIRMATION"
    /\ reports[id].confirmation_deadline # None
    /\ reports[id].confirmation_deadline < now

\* the report awaits its confirmation and the deadline has not passed
InTime(id) ==
    /\ reports[id].status = "AWAITING_CONFIRMATION"
    /\ ~Late(id)

\* C1: every change of the status of a report, by any operation, is an edge
\* of the lifecycle
C1_StatusChangesFollowLifecycle ==
    [][\A id \in Kept :
          reports'[id].status # reports[id].status
              => <<reports[id].status, reports'[id].status>> \in LifecycleEdges]_vars

\* C2: COMPLETED is terminal: no operation changes the status of a completed
\* report
C2_CompletedIsTerminal ==
    [][\A id \in Kept :
          reports[id].status = "COMPLETED" => reports'[id].status = "COMPLETED"]_vars

\* C3: each component of the points of a report (description score, weight
\* points, fast-confirmation bonus) is added to the points of its owner at
\* most once
C3_EachComponentCreditedOnce ==
    \A id \in ReportIds :
        \A k \in {"description", "poids", "confirmation_rapide"} : ledger[id][k] <= 1

\* C4: once the weight of a report is set, no step changes weight_kg or
\* weight_verified_by, and a weight record (the requests of Spec are on its
\* only report) is answered with an error and credits no points
C4_WeightRecordedOnce ==
    [][\A id \in Kept :
          reports[id].weight_kg # None
              => /\ reports'[id].weight_kg = reports[id].weight_kg
                 /\ reports'[id].weight_verified_by = reports[id].weight_verified_by
                 /\ response'.op = "update_report_weight"
                        => /\ response'.status_code >= 400
                           /\ users' = users]_vars

\* a second weight record was answered 400 and the weight is the one recorded
C4_Witness ==
    /\ response.op = "update_report_weight"
    /\ response.status_code = 400
    /\ 1 \in DOMAIN reports
    /\ reports[1].weight_kg = 155
    /\ reports[1].weight_verified_by = 3

\* C5: a confirmation or a refusal, by the owner, of a report
\* whose deadline is earlier than now leaves the report COMPLETED with
\* auto_confirmed and resolved_at set, never DISPUTED, credits nothing and is
\* answered with an error
C5_LateConfirmationAutoConfirms ==
    [][\A actor \in Clients, id \in Kept, confirmation \in Confirmations :
          (/\ response'.op = "confirm_cleanup_by_citizen"
           /\ Late(id)
           /\ MayConfirm(actor, id)
           /\ confirm_cleanup_by_citizen(actor, id, confirmation[1], confirmation[2],
                                         NoneStr))
              => /\ reports'[id].status = "COMPLETED"
                 /\ reports'[id].auto_confirmed
                 /\ reports'[id].resolved_at = now
                 /\ reports'[id].dispute_reason = reports[id].dispute_reason
                 /\ response'.status_code = 400
                 /\ users' = users]_vars

\* the owner's late request was answered 400 and the report is auto-confirmed
C5_Witness ==
    /\ response.op = "confirm_cleanup_by_citizen"
    /\ response.status_code = 400
    /\ response.actor = 1
    /\ reports[1].status = "COMPLETED"
    /\ reports[1].auto_confirmed
    /\ reports[1].confirmation_deadline < now
    /\ reports[1].resolved_at = now

\* C6: a successful confirmation of a report awaiting it, before its
\* deadline, sets citizen_confirmed, COMPLETED and resolved_at and adds to the
\* points of the owner exactly the total of the points of the confirmed
\* report, whoever confirmed and whatever the total; the runs are those whose
\* status updates followed the lifecycle
C6_ConfirmationCreditsTotal ==
    [][\A id \in Kept :
          (/\ jumps = 0
           /\ InTime(id)
           /\ response'.op = "confirm_cleanup_by_citizen"
           /\ response'.report_id = id
           /\ response'.status_code = 200
           /\ reports'[id].status # "DISPUTED")
              => /\ reports'[id].citizen_confirmed
                 /\ reports'[id].status = "COMPLETED"
                 /\ reports'[id].resolved_at = now
                 /\ users'[reports[id].user_id].points
                        = users[reports[id].user_id].points
                          + calculer_points_signalement(reports'[id]).total]_vars

\* C7: a report enters AWAITING_CONFIRMATION only from IN_PROGRESS or
\* ASSIGNED and only by the photo of its assigned collector; a photo that is
\* refused leaves the reports unchanged
C7_AwaitingOnlyByAssignedCollector ==
    [][/\ \A id \in Kept :
             (/\ reports'[id].status = "AWAITING_CONFIRMATION"
              /\ reports[id].status # "AWAITING_CONFIRMATION")
                 => /\ reports[id].status \in {"IN_PROGRESS", "ASSIGNED"}
                    /\ response'.op = "submit_cleanup_photo"
                    /\ response'.actor = reports[id].collector_id
       /\ (response'.op = "submit_cleanup_photo" /\ response'.status_code >= 400)
             => reports' = reports]_vars

\* C8: a refusal, by the owner, of a report awaiting its
\* confirmation whose deadline has not passed: with no reason or a reason of
\* fewer than 10 characters once trimmed it is answered 400 and the report is
\* unchanged; otherwise the report is DISPUTED, dispute_reason is the reason
\* and no points are credited
C8_RefusalNeedsReason ==
    [][\A actor \in Clients, id \in Kept, reason \in Reasons :
          (/\ response'.op = "confirm_cleanup_by_citizen"
           /\ InTime(id)
           /\ MayConfirm(actor, id)
           /\ confirm_cleanup_by_citizen(actor, id, FALSE, reason, NoneStr))
              => IF reason = NoneStr \/ Len(strip(reason)) < 10
                 THEN /\ response'.status_code = 400
                      /\ reports' = reports
                      /\ users' = users
                 ELSE /\ response'.status_code = 200
                      /\ reports'[id].status = "DISPUTED"
                      /\ reports'[id].dispute_reason = reason
                      /\ reports'[id].citizen_confirmed = FALSE
                      /\ users' = users]_vars

\* a refusal before the deadline was answered 400 and the report still awaits
\* its confirmation, without a dispute reason
C8_Witness ==
    /\ response.op = "confirm_cleanup_by_citizen"
    /\ response.status_code = 400
    /\ reports[1].status = "AWAITING_CONFIRMATION"
    /\ reports[1].confirmation_deadline # None
    /\ now < reports[1].confirmation_deadline
    /\ reports[1].dispute_reason = NoneStr

\* the two endpoints of the sweep
SweepOps == {"auto_confirm_expired_reports", "daily_auto_confirm"}

\* the report awaits its confirmation, its deadline is earlier than now and it
\* is neither confirmed nor auto-confirmed
Due(id) ==
    /\ reports[id].status = "AWAITING_CONFIRMATION"
    /\ reports[id].confirmation_deadline # None
    /\ reports[id].confirmation_deadline < now
    /\ ~reports[id].citizen_confirmed
    /\ ~reports[id].auto_confirmed

\* C9: one run of the sweep moves to COMPLETED, with auto_confirmed and
\* resolved_at set, exactly the reports awaiting their confirmation whose
\* deadline is earlier than now and that are neither confirmed nor
\* auto-confirmed; every other report, and every user, is left unchanged
C9_SweepCompletesExactlyExpired ==
    [][(response'.op \in SweepOps /\ response'.status_code = 200)
          => /\ DOMAIN reports' = DOMAIN reports
             /\ response'.swept = {id \in DOMAIN reports : Due(id)}
             /\ \A id \in DOMAIN reports :
                   IF Due(id)
                   THEN /\ reports'[id].status = "COMPLETED"
                        /\ reports'[id].auto_confirmed
                        /\ reports'[id].resolved_at = now
                        /\ reports'[id].citizen_confirmed = reports[id].citizen_confirmed
                   ELSE reports'[id] = reports[id]
             /\ users' = users]_vars

\* a sweep completed the first report and left the second one, whose deadline
\* is not earlier than now, awaiting its confirmation
C9_Witness ==
    /\ response.op \in SweepOps
    /\ response.status_code = 200
    /\ response.swept = {1}
    /\ reports[1].status = "COMPLETED"
    /\ reports[1].auto_confirmed
    /\ reports[1].resolved_at = now
    /\ reports[2].status = "AWAITING_CONFIRMATION"
    /\ reports[2].confirmation_deadline # None
    /\ reports[2].confirmation_deadline >= now
    /\ ~reports[2].auto_confirmed

\* C10: a sweep that follows a sweep, with no request and no time between
\* them, selects no report the first one swept and changes no status, no
\* auto_confirmed flag, no resolved_at and nobody's points
C10_SweepIsIdempotent ==
    [][(/\ response.op \in SweepOps
        /\ response.status_code = 200
        /\ response'.op \in SweepOps
        /\ response'.status_code = 200)
          => /\ response'.swept \cap response.swept = {}
             /\ DOMAIN reports' = DOMAIN reports
             /\ \A id \in DOMAIN reports :
                   /\ reports'[id].status = reports[id].status
                   /\ reports'[id].auto_confirmed = reports[id].auto_confirmed
                   /\ reports'[id].resolved_at = reports[id].resolved_at
             /\ \A id \in DOMAIN users : users'[id].points = users[id].points]_vars

\* a sweep found nothing to select and wrote nothing, at the hour at which both
\* reports were auto-confirmed
C10_Witness ==
    /\ response.op \in SweepOps
    /\ response.status_code = 200
    /\ response.swept = {}
    /\ ~progress
    /\ \A id \in ReportIds :
          /\ reports[id].status = "COMPLETED"
          /\ reports[id].auto_confirmed
          /\ ~reports[id].citizen_confirmed
          /\ reports[id].resolved_at = now

\* the requests in flight have all been answered
AllDone == \A w \in DOMAIN sessions : sessions[w].pc = "done"

\* C11: two point-crediting requests for reports of the same citizen, run
\* concurrently on two different reports, leave the citizen with the initial
\* points (none) plus the sum of the two credits, under every interleaving
C11_NoCreditLost ==
    (/\ DOMAIN sessions = Workers
     /\ AllDone
     /\ sessions[1].request.report_id # sessions[2].request.report_id)
        => users[1].points = sessions[1].points_earned + sessions[2].points_earned

\* C12: of two interleaved weight records for the same report, whose weight
\* was not set, at most one sets the weight and credits points: the weight is
\* credited once and the citizen holds no more than the credit of one request
C12_WeightCreditedOnceUnderRace ==
    (/\ DOMAIN sessions = Workers
     /\ AllDone
     /\ \A w \in Workers : sessions[w].request.op = "update_report_weight"
     /\ sessions[1].request.report_id = sessions[2].request.report_id)
        => /\ \E w \in Workers : sessions[w].status_code # 200
           /\ ledger[sessions[1].request.report_id].poids <= 1
           /\ \E w \in Workers : users[1].points <= sessions[w].points_earned

\* C13: resolved_at is written once in the life of a report, in the step in
\* which its status becomes COMPLETED: a step that changes resolved_at finds
\* it NULL and moves the report to COMPLETED, and a step that moves a report
\* to COMPLETED dates it
C13_ResolvedAtWrittenOnce ==
    [][\A id \in Kept :
          /\ reports'[id].resolved_at # reports[id].resolved_at
                => /\ reports[id].resolved_at = None
                   /\ reports[id].status # "COMPLETED"
                   /\ reports'[id].status = "COMPLETED"
          /\ (reports[id].status # "COMPLETED" /\ reports'[id].status = "COMPLETED")
                => reports'[id].resolved_at = now]_vars

\* C14: in every reachable state no two distinct reports hold the same
\* non-null confirmation code, whatever photos were submitted and whatever
\* disputes were rejected.
C14_ConfirmationCodesDistinct ==
    \A id \in DOMAIN reports, other \in DOMAIN reports :
        (id # other /\ reports[id].confirmation_code # NoneStr)
            => reports[id].confirmation_code # reports[other].confirmation_code

\* a photo was refused because the code it drew is held by another report
C14_Witness ==
    /\ response.op = "submit_cleanup_photo"
    /\ response.status_code = 500
    /\ \E id \in DOMAIN reports : reports[id].confirmation_code # NoneStr

\* the requests that are scoped by commune
ScopedOps == {"update_report_status", "update_report_weight", "resolve_dispute"}

\* the roles that are bound to their commune
ScopedRoles == {"ramasseur", "collector", "superviseur", "supervisor"}

\* C15: a status update, a weight record or a dispute resolution sent by a
\* collector or a supervisor succeeds only when the commune of the actor is
\* the commune of the citizen who owns the report.
C15_AgentsActInTheirCommune ==
    [][(/\ response'.op \in ScopedOps
        /\ response'.status_code = 200
        /\ get_user_role(response'.actor) \in ScopedRoles)
          => CommuneLower[response'.actor]
                = CommuneLower[reports[response'.report_id].user_id]]_vars

\* C16: confirm-cleanup changes a report only when it is sent by the citizen
\* who owns it; sent by anybody else, whatever the role, the token and the
\* code presented, it is answered 401 or 403 and the reports and the points
\* are left as they were.
C16_OnlyOwnerConfirms ==
    [][response'.op = "confirm_cleanup_by_citizen"
          => /\ reports' # reports
                => /\ response'.actor = reports[response'.report_id].user_id
                   /\ \A id \in Kept \ {response'.report_id} : reports'[id] = reports[id]
             /\ \A actor \in Actors, id \in Kept,
                   confirmation \in {<<TRUE, NoneStr>>, <<FALSE, "Zone sale.">>} :
                \A code \in {NoneStr, reports[id].confirmation_code} :
                   (/\ actor # reports[id].user_id
                    /\ confirm_cleanup_by_citizen(actor, id, confirmation[1],
                                                  confirmation[2], code))
                      => /\ response'.status_code \in {401, 403}
                         /\ reports' = reports
                         /\ users' = users]_vars

\* a confirmation sent by somebody who does not own the report was refused
\* while the report was awaiting its confirmation
C16_Witness ==
    /\ response.op = "confirm_cleanup_by_citizen"
    /\ response.status_code = 403
    /\ \E id \in DOMAIN reports : reports[id].status = "AWAITING_CONFIRMATION"

\* C17: a request answered with an error leaves every report and the points
\* of every user as they were, except a confirm-cleanup received after the
\* deadline, which commits the automatic confirmation and then fails.
C17_ErrorsChangeNothing ==
    [][response'.status_code >= 400
          => \/ reports' = reports /\ users' = users
             \/ /\ response'.op = "confirm_cleanup_by_citizen"
                /\ Late(response'.report_id)
                /\ reports' = [reports EXCEPT ![response'.report_id] = AutoConfirmed(@)]
                /\ users' = users]_vars

\* a request on a disputed report was answered with an error
C17_Witness ==
    /\ response.status_code >= 400
    /\ ~response.committed
    /\ \E id \in DOMAIN reports : reports[id].status = "DISPUTED"

\* C18: across the sequences of confirm-cleanup, confirm-collection, weight,
\* monthly subscription award, manual point addition, sweep, status update
\* and dispute requests, no step lowers the points of a user.
C18_PointsNeverDecrease ==
    [][\A id \in DOMAIN users : users'[id].points >= users[id].points]_vars

\* an administrator added points to a citizen who already held points of
\* another origin
C18_Witness ==
    /\ response.op = "add_manual_points"
    /\ response.status_code = 200
    /\ users[1].points > response.points_earned

\* C19: a report leaves the store only in a delete request sent by the
\* citizen who owns it while it is PENDING; a delete sent by somebody else, by
\* a user who is not a citizen, or on a report in another status is refused
\* and the report stays.
C19_OnlyOwnerDeletesPending ==
    [][/\ DOMAIN reports' # DOMAIN reports
            => /\ response'.op = "delete_report_by_citizen"
               /\ response'.status_code = 200
               /\ response'.report_id \in DOMAIN reports
               /\ DOMAIN reports' = DOMAIN reports \ {response'.report_id}
               /\ response'.actor = reports[response'.report_id].user_id
               /\ get_user_role(response'.actor) \in {"citoyen", "citizen"}
               /\ reports[response'.report_id].status = "PENDING"
       /\ response'.op = "delete_report_by_citizen"
            => \A actor \in Clients, id \in DOMAIN reports :
                  (/\ \/ actor # reports[id].user_id
                      \/ get_user_role(actor) \notin {"citoyen", "citizen"}
                      \/ reports[id].status # "PENDING"
                   /\ delete_report_by_citizen(actor, id))
                     => /\ response'.status_code \in {400, 403}
                        /\ reports' = reports]_vars

\* the owner deleted the report
C19_Witness ==
    /\ response.op = "delete_report_by_citizen"
    /\ response.status_code = 200
    /\ response.report_id \notin DOMAIN reports

\* C20: with the clock advancing and the sweep running again and again,
\* every report that awaits its confirmation eventually leaves that status,
\* whatever request put it there.
C20_AwaitingEventuallyLeaves ==
    (reports[1].status = "AWAITING_CONFIRMATION")
        ~> (reports[1].status # "AWAITING_CONFIRMATION")

\* the score of the description of a report: the stored one, else the score
\* of its text
DescriptionScore(report) ==
    IF report.description_quality_score # None THEN report.description_quality_score
    ELSE IF Truthy(report.description) THEN calculer_score_description(report.description)
    ELSE 0

\* C21: a weight recorded on a report the citizen has not confirmed adds to
\* the points of the owner exactly the description score of the report plus
\* floor(2 * weight_kg), adds nothing to anybody else, and sets
\* weight_verified_by to the actor.
C21_WeightCreditsScorePlusTwicePerKg ==
    [][(/\ response'.op = "update_report_weight"
        /\ response'.status_code = 200
        /\ ~reports[response'.report_id].citizen_confirmed)
          => LET id == response'.report_id
                 owner == reports[id].user_id
                 credit == DescriptionScore(reports[id])
                              + (2 * reports'[id].weight_kg) \div 10
             IN  /\ reports'[id].weight_kg \in 1 .. WEIGHT_MAX
                 /\ users' = [users EXCEPT ![owner].points = @ + credit]
                 /\ response'.points_earned = credit
                 /\ reports'[id].weight_verified_by = response'.actor]_vars

\* 15.5 kg were recorded on a report of score 30: the owner holds 61 points
C21_Witness ==
    /\ response.op = "update_report_weight"
    /\ response.status_code = 200
    /\ reports[1].weight_kg = 155
    /\ reports[1].description_quality_score = POINTS_MAX_DESCRIPTION
    /\ ~reports[1].citizen_confirmed
    /\ users[1].points = POINTS_MAX_DESCRIPTION + 31

\* the roles that may resolve a dispute
ResolverRoles ==
    {"superviseur", "supervisor", "coordinateur", "coordinator", "admin", "administrateur"}

\* the columns of a report other than its description
Columns(report) == [report EXCEPT !.description = NoneStr]

\* C22: resolve-dispute is accepted only on a DISPUTED report and from a
\* supervisor, a coordinator or an administrator; accept sets
\* citizen_confirmed, COMPLETED and resolved_at; reject sets IN_PROGRESS,
\* clears the photo, its date, the code and the deadline and appends the
\* notes of the supervisor to the dispute reason; any other resolution is
\* refused and the report is unchanged.
C22_ResolveDispute ==
    [][response'.op = "resolve_dispute"
          => IF response'.status_code # 200 THEN reports' = reports
             ELSE LET id == response'.report_id
                      old == reports[id]
                      new == reports'[id]
                  IN  /\ old.status = "DISPUTED"
                      /\ get_user_role(response'.actor) \in ResolverRoles
                      /\ \A resolution \in Resolutions :
                            resolve_dispute(response'.actor, id, resolution[1],
                                            resolution[2])
                               => IF lower(resolution[1]) = "accept"
                                  THEN Columns(new) =
                                         Columns([old EXCEPT
                                            !.citizen_confirmed = TRUE,
                                            !.status = "COMPLETED",
                                            !.resolved_at = now])
                                  ELSE /\ lower(resolution[1]) = "reject"
                                       /\ Columns(new) =
                                            Columns([old EXCEPT
                                               !.status = "IN_PROGRESS",
                                               !.cleanup_photo_url = NoneStr,
                                               !.cleanup_photo_submitted_at = None,
                                               !.confirmation_code = NoneStr,
                                               !.confirmation_deadline = None,
                                               !.dispute_reason = new.dispute_reason])
                                       /\ Len(new.dispute_reason) > Len(old.dispute_reason)
                                       /\ SubSeq(new.dispute_reason, 1,
                                                 Len(old.dispute_reason))
                                             = old.dispute_reason
                                       /\ Contains(new.dispute_reason,
                                                   IF Truthy(resolution[2])
                                                   THEN resolution[2]
                                                   ELSE "Rejeté sans commentaire")]_vars

\* a dispute was rejected with notes: the photo and the code are gone and
\* the reason holds the notes
C22_Witness ==
    /\ response.op = "resolve_dispute"
    /\ response.status_code = 200
    /\ reports[1].status = "IN_PROGRESS"
    /\ reports[1].confirmation_code = NoneStr
    /\ reports[1].cleanup_photo_url = NoneStr
    /\ Contains(reports[1].dispute_reason, "Photo floue")

\* C23: confirm-collection succeeds only when sent by a citizen who owns the
\* report while the report is IN_PROGRESS; it then sets COMPLETED and
\* resolved_at and adds exactly 100 points to the actor; in every other case
\* it is refused and neither the reports nor the points change.
C23_LegacyConfirm ==
    [][response'.op = "confirm_collection_by_citizen"
          => /\ IF response'.status_code # 200
                THEN reports' = reports /\ users' = users
                ELSE LET id == response'.report_id
                         actor == response'.actor
                     IN  /\ get_user_role(actor) \in {"citoyen", "citizen"}
                         /\ reports[id].user_id = actor
                         /\ reports[id].status = "IN_PROGRESS"
                         /\ reports' = [reports EXCEPT ![id] =
                                           [@ EXCEPT !.status = "COMPLETED",
                                                     !.resolved_at = now]]
                         /\ users' = [users EXCEPT ![actor].points = @ + 100]
             /\ \A actor \in Clients, id \in Kept :
                   (/\ \/ get_user_role(actor) \notin {"citoyen", "citizen"}
                       \/ reports[id].user_id # actor
                       \/ reports[id].status # "IN_PROGRESS"
                    /\ confirm_collection_by_citizen(actor, id))
                      => response'.status_code \in {400, 403}]_vars

\* the owner confirmed the collection of a report in progress
C23_Witness ==
    /\ response.op = "confirm_collection_by_citizen"
    /\ response.status_code = 200
    /\ response.actor = reports[1].user_id
    /\ reports[1].status = "COMPLETED"
    /\ reports[1].resolved_at = now
    /\ users[1].points >= 100

\* C24: the monthly award gives a user exactly 10 points when their flag is
\* set and their subscription row ends later than now, and nothing otherwise;
\* a user whose flag is set without such a row loses the flag and keeps their
\* points, and a user without the flag is left as they were.  The request
\* handles the flagged citizens one commit at a time, each of them once, and
\* is answered when none is left.
C24_MonthlyAward ==
    [][(response'.op = "monthly_subscription_points" /\ response'.status_code \in {200, None})
          => LET before == IF sessions = NoSessions
                           THEN {id \in DOMAIN users :
                                    users[id].subscription_active /\ users[id].role = "citoyen"}
                           ELSE sessions[1].pending
                 after == IF sessions' = NoSessions THEN {} ELSE sessions'[1].pending
             IN  /\ after \subseteq before
                 /\ before # {} => Cardinality(before \ after) = 1
                 /\ response'.status_code = 200 <=> after = {}
                 /\ \A id \in DOMAIN users :
                       LET user == users[id]
                           valid == user.subscription_end # None /\ user.subscription_end > now
                       IN  users'[id] =
                              IF id \notin before \ after \/ ~user.subscription_active THEN user
                              ELSE IF valid THEN [user EXCEPT !.points = @ + 10]
                              ELSE [user EXCEPT !.subscription_active = FALSE]
                 /\ reports' = reports]_vars

\* after an award the first citizen was credited and the second one, whose
\* subscription row is gone, lost the flag and holds no points
C24_Witness ==
    /\ response.op = "monthly_subscription_points"
    /\ response.status_code = 200
    /\ users[1].points >= POINTS_ABONNEMENT_MENSUEL
    /\ users[1].subscription_active
    /\ ~users[2].subscription_active
    /\ users[2].points = 0

\* the thresholds of the reward table
Thresholds == {1000, 2000, 3500, 5000, 7500}

\* C25: for every number of points, the thresholds reached are exactly the
\* thresholds of the table at most equal to the points, in ascending order;
\* the next threshold is the smallest one above the points, with the points
\* missing, and there is none exactly when the points reach the largest
\* threshold; a citizen is eligible for the lottery exactly when some
\* threshold is reached.
C25_RewardThresholds ==
    LET points == response.points
        reached == {t \in Thresholds : t <= points}
        above == {t \in Thresholds : t > points}
        result == response.result
    IN  /\ response.op = "get_seuils_atteints"
            => /\ Len(result) = Cardinality(reached)
               /\ {result[i].seuil : i \in 1 .. Len(result)} = reached
               /\ \A i \in 1 .. Len(result) - 1 : result[i].seuil < result[i + 1].seuil
               /\ \A i \in 1 .. Len(result) :
                     result[i].cadeau = SEUILS_TIRAGE[result[i].seuil]
        /\ response.op = "get_prochain_seuil"
            => /\ result = NoSeuil <=> points >= 7500
               /\ result # NoSeuil
                     => /\ result.seuil \in above
                        /\ \A t \in above : result.seuil <= t
                        /\ result.points_manquants = result.seuil - points
                        /\ result.cadeau = SEUILS_TIRAGE[result.seuil]
        /\ response.op = "is_eligible_for_lottery"
            => (result <=> Len(get_seuils_atteints(points)) > 0)

\* the next threshold of a citizen holding exactly 1000 points is 2000
C25_Witness ==
    /\ response.op = "get_prochain_seuil"
    /\ response.points = 1000
    /\ response.result.seuil = 2000
    /\ response.result.points_manquants = 1000

\* C26: in every reachable state a report awaiting its confirmation has a
\* cleanup photo, a confirmation code and a confirmation deadline that is
\* 48 hours after the date of the photo.
C26_AwaitingHasPhotoCodeDeadline ==
    \A id \in DOMAIN reports :
        reports[id].status = "AWAITING_CONFIRMATION"
            => /\ reports[id].cleanup_photo_url # NoneStr
               /\ reports[id].confirmation_code # NoneStr
               /\ reports[id].cleanup_photo_submitted_at # None
               /\ reports[id].confirmation_deadline # None
               /\ reports[id].confirmation_deadline
                     = reports[id].cleanup_photo_submitted_at + 48

\* the step is an automatic confirmation: a sweep, or a confirm-cleanup
\* that found the deadline passed
AutoConfirmStep ==
    \/ response'.op \in SweepOps /\ response'.status_code = 200
    \/ /\ response'.op = "confirm_cleanup_by_citizen"
       /\ response'.status_code = 400
       /\ response'.committed

\* C27: the sweep, the automatic confirmation inside a late confirm-cleanup
\* and resolve-dispute leave the points of every user unchanged, and the two
\* automatic confirmations leave citizen_confirmed unchanged.
C27_NoCreditWithoutCitizen ==
    [][/\ (AutoConfirmStep \/ response'.op = "resolve_dispute") => users' = users
       /\ AutoConfirmStep
            => \A id \in Kept :
                  reports'[id].citizen_confirmed = reports[id].citizen_confirmed]_vars

\* a late confirm-cleanup completed the report: the citizen has not
\* confirmed and holds no points
C27_Witness ==
    /\ response.op = "confirm_cleanup_by_citizen"
    /\ response.status_code = 400
    /\ response.committed
    /\ reports[1].auto_confirmed
    /\ ~reports[1].citizen_confirmed
    /\ users[1].points = 0

\* C28: over the life of a report the flat bonus of 100 points, of
\* confirm-collection or of the fallback of confirm-cleanup, is credited at
\* most once.
C28_FlatBonusAtMostOnce ==
    \A id \in ReportIds : ledger[id].forfait <= 1

\* the two requests in flight are confirmations of the same report
TwoConfirmations ==
    /\ DOMAIN sessions = Workers
    /\ \A w \in Workers : sessions[w].request.op = "confirm_cleanup_by_citizen"
    /\ \A w \in Workers : sessions[w].status_code = 200 /\ sessions[w].points_earned > 0
    /\ users[1].points = sessions[1].points_earned

\* C30: no report is both confirmed by its citizen (or by a supervisor who
\* rejected the dispute) and confirmed automatically
C30_NeverBothConfirmations ==
    \A id \in DOMAIN reports :
        ~(reports[id].citizen_confirmed /\ reports[id].auto_confirmed)

====
